---- MODULE Spec2Model ----
(***************************************************************************)
(* A model of fel's concurrent submission engine: the AwaitMap             *)
(* (src/src/await_map.rs), the batched pusher (src/src/push.rs) and the    *)
(* submit orchestrator (src/src/submit.rs).                                *)
(*                                                                         *)
(* Strings the code builds or compares are sequences of tokens, so that a  *)
(* conversion (Oid::to_string, Refspec::to_string, PathBuf::join) is       *)
(* computed and not assumed.                                               *)
(***************************************************************************)
EXTENDS Integers, Sequences, FiniteSets, TLC

(***************************************************************************)
(* Bounds of the model.                                                    *)
(***************************************************************************)
\* readers calling AwaitMap::get
NumReaders == 2
\* tasks calling AwaitMap::insert
NumWriters == 1
\* producers calling BatchedPusher::push in one batch
NumProducers == 2

(***************************************************************************)
(* Object ids and their hex form.                                          *)
(***************************************************************************)
HexChars == <<"0", "1", "2", "3", "4", "5", "6", "7",
              "8", "9", "a", "b", "c", "d", "e", "f">>

\* git2::Oid as a sequence of nibbles (a scale model of the 40 of a SHA-1)
OidZero == <<0, 0, 0, 0, 0>>
OidInit == <<1, 0, 10, 0, 1>>
OidA == <<1, 0, 10, 0, 2>>
OidB == <<1, 0, 11, 0, 3>>
OidA2 == <<15, 3, 0, 7, 4>>
OidB2 == <<15, 3, 1, 7, 5>>
\* a commit made on top of A, and B as it is once rebased onto that commit
OidC == <<1, 0, 12, 0, 6>>
OidB3 == <<1, 0, 13, 0, 7>>

Oids == {OidInit, OidA, OidB, OidA2, OidB2, OidC, OidB3}

\* Display for Oid: lowercase hex, one character per nibble
OidToString(o) == [i \in 1..Len(o) |-> HexChars[o[i] + 1]]

\* the Oid a hex string names, OidZero when it names none
OidFromString(h) ==
    IF \E o \in Oids : OidToString(o) = h
    THEN CHOOSE o \in Oids : OidToString(o) = h
    ELSE OidZero

\* a commit graph as the pusher's test builds it: `initial`, the commits A and
\* B made on top of it one after the other, and A2 and B2 made the same way
\* after `checkout(initial_commit)`: every commit has one parent, the head's
GraphParent(o) ==
    CASE o = OidA -> OidInit
      [] o = OidB -> OidA
      [] o = OidA2 -> OidInit
      [] o = OidB2 -> OidA2
      [] o = OidC -> OidA
      [] o = OidB3 -> OidC
      [] OTHER -> OidZero

RECURSIVE IsAncestor(_, _)
\* a is b or one of b's ancestors
IsAncestor(a, b) ==
    IF b = OidZero THEN FALSE
    ELSE IF a = b THEN TRUE
    ELSE IsAncestor(a, GraphParent(b))

(***************************************************************************)
(* Refspec (push.rs).                                                      *)
(***************************************************************************)
\* str::strip_prefix('/').unwrap_or(branch): one leading slash, when there is one
StripSlash(branch) ==
    IF Len(branch) > 0 /\ Head(branch) = "/" THEN Tail(branch) ELSE branch

Refspec_new(commit, branch, force) ==
    [commit |-> commit, branch |-> StripSlash(branch), force |-> force]

\* PathBuf::join: an absolute path replaces the base
PathJoin(base, path) ==
    IF Len(path) > 0 /\ Head(path) = "/" THEN path
    ELSE base \o <<"/">> \o path

RefsHeads == <<"refs/heads">>

Refspec_refname(r) == PathJoin(RefsHeads, r.branch)

\* the mutant of Refspec_to_string: the force marker is never written
Refspec_to_string_NoPlus(r) ==
    OidToString(r.commit) \o <<":">> \o Refspec_refname(r)

Refspec_to_string(r) ==
    (IF r.force THEN <<"+">> ELSE <<>>)
        \o OidToString(r.commit) \o <<":">> \o Refspec_refname(r)

(***************************************************************************)
(* The remote end of the transport, reading the refspec strings it is      *)
(* given.                                                                  *)
(***************************************************************************)
SpecForce(s) == Len(s) > 0 /\ Head(s) = "+"

ColonAt(s) ==
    CHOOSE i \in 1..Len(s) : s[i] = ":" /\ \A j \in 1..(i - 1) : s[j] # ":"

SpecSrc(s) == SubSeq(s, IF SpecForce(s) THEN 2 ELSE 1, ColonAt(s) - 1)

SpecDst(s) == SubSeq(s, ColonAt(s) + 1, Len(s))

\* the update s asks for is not a fast-forward of the reference it names
Diverged(s, refs) ==
    /\ SpecDst(s) \in DOMAIN refs
    /\ refs[SpecDst(s)] # <<>>
    /\ ~IsAncestor(OidFromString(refs[SpecDst(s)]), OidFromString(SpecSrc(s)))

NonFastForward(s, refs) == ~SpecForce(s) /\ Diverged(s, refs)

(***************************************************************************)
(* State.                                                                  *)
(***************************************************************************)
VARIABLES
    \* AwaitMap
    inner,          \* AwaitMap.inner: key -> value, NoValue when absent
    getter,         \* each get call: its place in the loop, its key, its Notified
    inserter,       \* each insert call: between the write and notify_waiters
    latest,         \* per key, the value of the last insert call made under it
    \* BatchedPusher
    req,            \* what each producer passes to push
    ppc,            \* each push call's place
    chan,           \* each push call's oneshot channel
    res,            \* what each push call returned
    pending,        \* BatchedPusher.pending
    wpc,            \* wait_for's place
    wwoken,         \* whether wait_for's Notified future has been notified
    drained,        \* wait_for's local `pending` once it left the loop
    wres,           \* what wait_for returned
    remote_refs,    \* the remote's references: refname -> hex of its tip
    tcalls,         \* how many times Remote::push was called
    targ,           \* the refspec strings of the last Remote::push
    tmode,          \* how that call went
    tres,           \* what that call returned before wait_for added its context
    refs_before,    \* the remote's references when that call was made
    outcome,        \* per refspec of that call: the status the remote reported
    \* submit
    use_indexed_branches,   \* Submit.use_indexed_branches
    authoritative_commits,  \* Config.submit.authoritative_commits
    stack,          \* the stack, bottom commit first: each Commit's id, title and body
    loaded,         \* per commit of the stack, commit.metadata as Stack loaded it
    prs_before,     \* the forge's review requests when the invocation began
    notes,          \* per commit of the stack, its note under refs/notes/fel
    prs,            \* the forge's review requests, prs[n] having number n
    tpc,            \* each per-commit task's place
    twoken,         \* whether a task's Notified future of the start gate was notified
    bn,             \* per commit, the watch channel in Submit.branch_names
    pri,            \* per commit, the watch channel in Submit.pr_info
    footer,         \* the watch channel of the rendered footer
    fpc,            \* render_footer's place: the commit it waits for, or how it ended
    fprs,           \* render_footer's local `prs`
    tbase,          \* each task's local `base_branch`
    tpr,            \* each task's local `pr` and `created_pr`
    tret,           \* what each task returned
    completed,      \* the tasks in the order FuturesUnordered yielded them
    written,        \* the commits whose note this invocation wrote, in order
    opc,            \* submit's place
    ores,           \* what submit returned
    fcalls,         \* per task, the forge calls it made: "get", "create", "update"
    tfail,          \* per task, the step whose error ended it, "" when none did
    \* the footer splice (pr.rs)
    splice,         \* a body and a footer, their joined text, and its split
    \* PR::update (pr.rs)
    upd,            \* a review request, a PartialUpdate, and the request sent
    \* Refspec (push.rs)
    rspec,          \* a commit, a branch and a force flag, the Refspec, its string
    \* Stack::new (stack.rs)
    walked,         \* the commits of the revwalk, those collected, the result
    \* submit_commit's choice of branch (submit.rs)
    chosen,         \* a prefix, a commit's metadata, index and id, and the push asked
    \* one commit submitted and amended again and again (submit.rs, metadata.rs)
    life,           \* the commit's id now, the notes by commit id, the ids submitted
    \* the batches a BatchedPusher has finished (push.rs)
    batches         \* per finished batch: what wait_for took, got and returned

amVars == <<inner, getter, inserter, latest>>
pushVars == <<req, ppc, chan, res, pending, wpc, wwoken, drained, wres,
              remote_refs, tcalls, targ, tmode, tres, refs_before, outcome>>
\* what an invocation is given and does not change: the configuration, the
\* stack as it was loaded, and the forge as it was found
given == <<use_indexed_branches, authoritative_commits, stack, loaded, prs_before>>
subVars == <<given, notes, prs, tpc, twoken, bn, pri,
             footer, fpc, fprs, tbase, tpr, tret, completed, written, opc, ores,
             fcalls, tfail>>
\* the variables of the parts that are checked on their own: the pure
\* functions, one commit over several submits, the batches of a reused pusher
pureVars == <<splice, upd, rspec, walked, chosen, life, batches>>
vars == <<amVars, pushVars, subVars, pureVars>>

(***************************************************************************)
(* AwaitMap (await_map.rs).                                                *)
(***************************************************************************)
Keys == {"k1", "k2"}
Values == {"v1", "v2"}
NoValue == "none"
Readers == 1..NumReaders
Writers == 1..NumWriters

AmInit ==
    /\ inner = [k \in Keys |-> NoValue]
    /\ getter = [r \in Readers |->
                    [pc |-> "idle", key |-> "k1", woken |-> FALSE,
                     ret |-> NoValue, seen |-> NoValue]]
    /\ inserter = [w \in Writers |-> "idle"]
    /\ latest = [k \in Keys |-> NoValue]

\* the mutant of HashMapInsert: an occupied key keeps its value
HashMapInsert_KeepFirst(m, k, v) ==
    IF m[k] = NoValue THEN [m EXCEPT ![k] = v] ELSE m

\* HashMap::insert: the value under k is replaced
HashMapInsert(m, k, v) == [m EXCEPT ![k] = v]

\* Notify::notify_waiters on AwaitMap.notify: every Notified future that exists
\* is notified; nothing is stored for a future created later
AmNotifyWaiters(g) ==
    [r \in Readers |->
        IF g[r].pc = "await" THEN [g[r] EXCEPT !.woken = TRUE] ELSE g[r]]

\* insert, line 32: the write under the lock
Insert(w, k, v) ==
    /\ inserter[w] = "idle"
    /\ inner' = HashMapInsert(inner, k, v)
    /\ latest' = [latest EXCEPT ![k] = v]
    /\ inserter' = [inserter EXCEPT ![w] = "notify"]
    /\ UNCHANGED getter

\* insert, line 33
InsertNotify(w) ==
    /\ inserter[w] = "notify"
    /\ getter' = AmNotifyWaiters(getter)
    /\ inserter' = [inserter EXCEPT ![w] = "idle"]
    /\ UNCHANGED <<inner, latest>>

\* a task calls get(k)
GetCall(r, k) ==
    /\ getter[r].pc = "idle"
    /\ getter' = [getter EXCEPT ![r].pc = "check", ![r].key = k]
    /\ UNCHANGED <<inner, inserter, latest>>

\* get, lines 39-41: the read under the lock; the guard is released before
\* line 42 runs
GetCheck(r) ==
    /\ getter[r].pc = "check"
    /\ getter' =
         IF inner[getter[r].key] # NoValue
         THEN [getter EXCEPT ![r].pc = "done",
                             ![r].ret = inner[getter[r].key],
                             ![r].seen = latest[getter[r].key]]
         ELSE [getter EXCEPT ![r].pc = "absent"]
    /\ UNCHANGED <<inner, inserter, latest>>

\* get, line 42: notified() creates the future; from here on it is notified
GetNotified(r) ==
    /\ getter[r].pc = "absent"
    /\ getter' = [getter EXCEPT ![r].pc = "await", ![r].woken = FALSE]
    /\ UNCHANGED <<inner, inserter, latest>>

\* get, line 42: the await completes, the loop goes round
GetWake(r) ==
    /\ getter[r].pc = "await"
    /\ getter[r].woken
    /\ getter' = [getter EXCEPT ![r].pc = "check"]
    /\ UNCHANGED <<inner, inserter, latest>>

GetStep(r) == GetCheck(r) \/ GetNotified(r) \/ GetWake(r)

(***************************************************************************)
(* BatchedPusher (push.rs).                                                *)
(***************************************************************************)
Producers == 1..NumProducers

\* Result<(), PushError>
ResOk == [tag |-> "Ok", reason |-> ""]
ResRejected(status) == [tag |-> "Rejected", reason |-> status]
ResCancelled == [tag |-> "Cancelled", reason |-> ""]
ResNone == [tag |-> "None", reason |-> ""]

\* a oneshot channel: open, or a value sent, or its Sender dropped unused
ChanOpen == [state |-> "open", val |-> ResNone]
ChanSent(v) == [state |-> "sent", val |-> v]
ChanDropped == [state |-> "dropped", val |-> ResNone]

NoReq == [commit |-> OidZero, branch |-> <<>>, force |-> FALSE]

\* the refnames a push of this model can name
PushBranches == {<<"x">>, <<"/", "y">>}
PushCommits == {OidB}
RefNames == {Refspec_refname(Refspec_new(OidB, b, FALSE)) : b \in PushBranches}

\* the status of a push_update_reference call, an Option<&str>
StatusNone == <<>>
StatusSome(msg) == <<msg>>

\* the mutant of ThresholdReached: the count is ignored
ThresholdReached_Any(queue, count) == Len(queue) >= 1

\* wait_for, line 99
ThresholdReached(queue, count) == Len(queue) >= count

\* push, lines 75-81: the channel is made and the PendingPush queued under the lock
PushEnqueue(p) ==
    /\ ppc[p] = "start"
    /\ pending' = Append(pending,
                    [refspec |-> Refspec_new(req[p].commit, req[p].branch, req[p].force),
                     info |-> p])
    /\ chan' = [chan EXCEPT ![p] = ChanOpen]
    /\ ppc' = [ppc EXCEPT ![p] = "notify"]
    /\ UNCHANGED <<req, res, wpc, wwoken, drained, wres,
                   remote_refs, tcalls, targ, tmode, tres, refs_before, outcome>>

\* push, line 84: notify_waiters reaches wait_for's Notified future only if
\* that future exists
PushNotify(p) ==
    /\ ppc[p] = "notify"
    /\ wwoken' = (wwoken \/ wpc = "await")
    /\ ppc' = [ppc EXCEPT ![p] = "await"]
    /\ UNCHANGED <<req, chan, res, pending, wpc, drained, wres,
                   remote_refs, tcalls, targ, tmode, tres, refs_before, outcome>>

\* push, line 85: rx.await.unwrap_or(Err(PushError::Cancelled))
PushReturn(p) ==
    /\ ppc[p] = "await"
    /\ chan[p].state # "open"
    /\ res' = [res EXCEPT ![p] =
                 IF chan[p].state = "sent" THEN chan[p].val ELSE ResCancelled]
    /\ ppc' = [ppc EXCEPT ![p] = "done"]
    /\ UNCHANGED <<req, chan, pending, wpc, wwoken, drained, wres,
                   remote_refs, tcalls, targ, tmode, tres, refs_before, outcome>>

\* the mutant of WaitForCheck: the queue is copied and left as it is
WaitForCheck_Copy(count) ==
    /\ wpc = "check"
    /\ IF ThresholdReached(pending, count)
       THEN /\ drained' = pending
            /\ wpc' = "push"
            /\ UNCHANGED pending
       ELSE /\ wpc' = "absent"
            /\ UNCHANGED <<drained, pending>>
    /\ UNCHANGED <<req, ppc, chan, res, wwoken, wres,
                   remote_refs, tcalls, targ, tmode, tres, refs_before, outcome>>

\* wait_for, lines 95-103: the length is read under the lock, and the queue
\* taken when it is long enough; the lock is released either way
WaitForCheck(count) ==
    /\ wpc = "check"
    /\ IF ThresholdReached(pending, count)
       THEN /\ drained' = pending
            /\ pending' = <<>>
            /\ wpc' = "push"
       ELSE /\ wpc' = "absent"
            /\ UNCHANGED <<drained, pending>>
    /\ UNCHANGED <<req, ppc, chan, res, wwoken, wres,
                   remote_refs, tcalls, targ, tmode, tres, refs_before, outcome>>

\* wait_for, line 105: notified() creates the future
WaitForNotified ==
    /\ wpc = "absent"
    /\ wpc' = "await"
    /\ wwoken' = FALSE
    /\ UNCHANGED <<req, ppc, chan, res, pending, drained, wres,
                   remote_refs, tcalls, targ, tmode, tres, refs_before, outcome>>

\* wait_for, line 105: the await completes, the loop goes round
WaitForWake ==
    /\ wpc = "await"
    /\ wwoken
    /\ wpc' = "check"
    /\ UNCHANGED <<req, ppc, chan, res, pending, wwoken, drained, wres,
                   remote_refs, tcalls, targ, tmode, tres, refs_before, outcome>>

\* wait_for, lines 109-112: the strings handed to the transport
BuildRefspecs(queue) ==
    [i \in 1..Len(queue) |-> Refspec_to_string(queue[i].refspec)]

\* wait_for, lines 110-114: the HashMap from refname to Sender once every
\* PendingPush was inserted: a later insert under the same refname replaces
\* the Sender of an earlier one
BuildInfo(queue) ==
    LET names == {Refspec_refname(queue[i].refspec) : i \in 1..Len(queue)}
        last(n) == CHOOSE i \in 1..Len(queue) :
                      /\ Refspec_refname(queue[i].refspec) = n
                      /\ \A j \in (i + 1)..Len(queue) :
                            Refspec_refname(queue[j].refspec) # n
    IN [n \in names |-> queue[last(n)].info]

\* the Senders that HashMap::insert returned and line 113 dropped
Replaced(queue) ==
    {queue[i].info : i \in {k \in 1..Len(queue) :
        \E j \in (k + 1)..Len(queue) :
            Refspec_refname(queue[j].refspec) = Refspec_refname(queue[k].refspec)}}

\* push_update_reference, lines 149-151
UpdateResult(status) ==
    IF status = StatusNone THEN ResOk ELSE ResRejected(Head(status))

\* the mutant of CallbackReturn: a rejected reference fails the callback
CallbackReturn_ErrOnReject(status) ==
    IF status = StatusNone THEN "Ok" ELSE "Err"

\* push_update_reference, lines 146 and 154: the callback never fails
CallbackReturn(status) == "Ok"

RECURSIVE Dispatch(_, _, _)
\* push_update_reference called once per report, in order: lines 143-152
Dispatch(reports, info, ch) ==
    IF reports = <<>> THEN [info |-> info, chan |-> ch]
    ELSE LET rep == Head(reports) IN
         IF rep.refname \notin DOMAIN info
         THEN Dispatch(Tail(reports), info, ch)
         ELSE Dispatch(Tail(reports),
                       [n \in DOMAIN info \ {rep.refname} |-> info[n]],
                       [ch EXCEPT ![info[rep.refname]] =
                           ChanSent(UpdateResult(rep.status))])

\* the mutant of DropSenders: a Sender that was never used is kept, and its
\* channel stays open
DropSenders_Keep(ch, senders) == ch

\* dropping a Sender that was never used closes its channel
DropSenders(ch, senders) ==
    [p \in DOMAIN ch |->
        IF p \in senders /\ ch[p].state = "open" THEN ChanDropped ELSE ch[p]]

RefSet(refs, name, tip) ==
    [n \in DOMAIN refs \cup {name} |-> IF n = name THEN tip ELSE refs[n]]

RECURSIVE RemoteApply(_, _, _)
\* the remote takes the refspecs one by one: a forced or fast-forward update
\* moves the reference and is reported without a status, another is refused
\* and reported with one
RemoteApply(specs, refs, reports) ==
    IF specs = <<>> THEN [refs |-> refs, reports |-> reports]
    ELSE LET s == Head(specs) IN
         IF NonFastForward(s, refs)
         THEN RemoteApply(Tail(specs), refs,
                Append(reports, [refname |-> SpecDst(s),
                                 status |-> StatusSome("non-fast-forward")]))
         ELSE RemoteApply(Tail(specs), RefSet(refs, SpecDst(s), SpecSrc(s)),
                Append(reports, [refname |-> SpecDst(s), status |-> StatusNone]))

\* How a call of Remote::push can go:
\*   "down"    the connection or the protocol fails: an error, nothing reported;
\*   "local"   git2 compares each non-forced refspec with the references the
\*             remote advertised and fails the whole call, before anything is
\*             sent, when one is not a fast-forward (the second round of
\*             test::push_branches: wait_for(..).unwrap_err()); otherwise the
\*             remote takes the refspecs;
\*   "remote"  the remote takes the refspecs and refuses per reference.
TransportModes == {"down", "local", "remote"}

Remote_push(specs, refs, mode) ==
    IF \/ mode = "down"
       \/ mode = "local" /\ \E i \in 1..Len(specs) : NonFastForward(specs[i], refs)
    THEN [result |-> "Err", refs |-> refs, reports |-> <<>>]
    ELSE [result |-> "Ok"] @@ RemoteApply(specs, refs, <<>>)

\* what Remote::push returns to wait_for: its own error, or the error of a
\* callback that failed
PushResult(t) ==
    IF \/ t.result = "Err"
       \/ \E i \in 1..Len(t.reports) : CallbackReturn(t.reports[i].status) # "Ok"
    THEN "Err" ELSE "Ok"

OutcomeOf(t, i) ==
    IF i > Len(t.reports) THEN "None"
    ELSE IF t.reports[i].status = StatusNone THEN "Accepted" ELSE "Rejected"

\* wait_for, lines 108-165: the refspecs and the reply map are built, the
\* transport runs on this thread and calls back per reference, and the
\* Senders still in the map are dropped when wait_for returns
WaitForPush(mode) ==
    /\ wpc = "push"
    /\ LET refspecs == BuildRefspecs(drained)
           t == Remote_push(refspecs, remote_refs, mode)
           d == Dispatch(t.reports, BuildInfo(drained),
                         DropSenders(chan, Replaced(drained)))
       IN /\ chan' = DropSenders(d.chan, {d.info[n] : n \in DOMAIN d.info})
          /\ remote_refs' = t.refs
          /\ wres' = PushResult(t)
          /\ tres' = t.result
          /\ targ' = refspecs
          /\ outcome' = [i \in 1..Len(refspecs) |-> OutcomeOf(t, i)]
    /\ tcalls' = tcalls + 1
    /\ tmode' = mode
    /\ refs_before' = remote_refs
    /\ wpc' = "done"
    /\ UNCHANGED <<req, ppc, res, pending, wwoken, drained>>

(***************************************************************************)
(* submit (submit.rs): the data of one invocation.                         *)
(***************************************************************************)
\* the ids of a stack of two commits, bottom commit first, and the ids its
\* commits had before they were amended
StackAB == <<OidA, OidB>>
OldIds == <<OidA2, OidB2>>
Tasks == 1..Len(stack)

StackName == <<"feature">>
StackUpstream == <<"master">>
\* Config.submit.branch_prefix, an Option<String>
BranchPrefix == <<>>
CommitTitle == <<"a", "b">>
CommitBody == <<"body of a", "body of b">>
\* the titles of the commits once their messages were amended
AmendedTitle == <<"a2", "b2">>

\* Option<T>: None is the empty sequence, Some(v) the sequence of v alone
None == <<>>
Some(v) == <<v>>
UnwrapOr(o, d) == IF o = None THEN d ELSE o[1]

\* Metadata::default()
DefaultMetadata ==
    [branch |-> None, pr |-> None, revision |-> None, commit |-> None,
     history |-> None, pr_url |-> None]

\* Display of a small unsigned number
NumToString(n) == HexChars[n + 1]

\* the mutant of BranchName: the name is synthesized whatever the metadata says
BranchName_Synthesized(metadata, indexed, index, id) ==
    <<"fel", "/">> \o StackName \o <<"/">> \o
        (IF indexed THEN <<NumToString(index)>> ELSE SubSeq(OidToString(id), 1, 4))

\* the mutant of BranchNameWith: the prefix is put before a recorded branch too
BranchNameWith_PrefixAll(prefix, metadata, indexed, index, id) ==
    LET name == UnwrapOr(metadata.branch,
                    <<"fel", "/">> \o StackName \o <<"/">> \o
                        (IF indexed THEN <<NumToString(index)>>
                         ELSE SubSeq(OidToString(id), 1, 4)))
    IN IF prefix = None THEN name ELSE prefix[1] \o <<"/">> \o name

\* submit_commit, lines 134-146, with Submit.branch_prefix as `prefix`; index
\* counts from 0
BranchNameWith(prefix, metadata, indexed, index, id) ==
    LET name == <<"fel", "/">> \o StackName \o <<"/">> \o
                    (IF indexed THEN <<NumToString(index)>>
                     ELSE SubSeq(OidToString(id), 1, 4))
        synthesized == IF prefix = None THEN name
                       ELSE prefix[1] \o <<"/">> \o name
    IN UnwrapOr(metadata.branch, synthesized)

\* submit_commit, lines 134-146, under the configured prefix
BranchName(metadata, indexed, index, id) ==
    BranchNameWith(BranchPrefix, metadata, indexed, index, id)

\* submit_commit, line 133
ForcePush(metadata) == metadata.branch # None

\* the forge's html_url of review request n
HtmlUrl(n) == <<"https://forge/pull/", NumToString(n)>>

\* the review request the forge makes of a create call
NewPr(n, title, head, base, body) ==
    [number |-> n, title |-> Some(title), body |-> Some(body),
     head |-> head, base |-> base, html_url |-> Some(HtmlUrl(n))]

NoPr == [number |-> 0, title |-> None, body |-> None, head |-> <<>>,
         base |-> <<>>, html_url |-> None]

\* submit_commit, lines 204-207
PrInfoOf(pr) == [number |-> pr.number, title |-> UnwrapOr(pr.title, "")]

BODY_DELIM == "[#]:fel"
BlankLine == "\n\n"

RECURSIVE RenderFooter(_)
\* the footer template over the PrInfo list it is given, in the list's order
RenderFooter(infos) ==
    IF infos = <<>> THEN <<>>
    ELSE <<"#", NumToString(Head(infos).number), Head(infos).title>>
            \o RenderFooter(Tail(infos))

\* str::split(BODY_DELIM).next(): the text before the first delimiter
BeforeDelim(body) ==
    IF \E i \in 1..Len(body) : body[i] = BODY_DELIM
    THEN SubSeq(body, 1,
            (CHOOSE i \in 1..Len(body) :
                body[i] = BODY_DELIM /\ \A j \in 1..(i - 1) : body[j] # BODY_DELIM) - 1)
    ELSE body

\* submit_commit, lines 223-226
SpliceBody(pr_body, foot) ==
    BeforeDelim(UnwrapOr(pr_body, <<>>)) \o <<BlankLine, BODY_DELIM, BlankLine>> \o foot

\* the mutant of PostMetadata: the commit id is appended to the history even
\* when it is the commit recorded
PostMetadata_AlwaysAppend(metadata, id, branch_name, pr) ==
    [pr |-> Some(pr.number),
     branch |-> Some(branch_name),
     revision |-> Some(UnwrapOr(metadata.revision, 0) + 1),
     commit |-> Some(OidToString(id)),
     history |-> Some(Append(UnwrapOr(metadata.history, <<>>), OidToString(id))),
     pr_url |-> Some(UnwrapOr(pr.html_url, <<>>))]

\* the mutant of PostMetadata: the commit recorded stays the one the metadata
\* had, when it had one
PostMetadata_KeepCommit(metadata, id, branch_name, pr) ==
    LET history == UnwrapOr(metadata.history, <<>>)
    IN [pr |-> Some(pr.number),
        branch |-> Some(branch_name),
        revision |-> Some(UnwrapOr(metadata.revision, 0) + 1),
        commit |-> Some(UnwrapOr(metadata.commit, OidToString(id))),
        history |-> Some(IF Some(OidToString(id)) = metadata.commit
                         THEN history
                         ELSE Append(history, OidToString(id))),
        pr_url |-> Some(UnwrapOr(pr.html_url, <<>>))]

\* submit_commit, lines 237-257
PostMetadata(metadata, id, branch_name, pr) ==
    LET history == UnwrapOr(metadata.history, <<>>)
    IN [pr |-> Some(pr.number),
        branch |-> Some(branch_name),
        revision |-> Some(UnwrapOr(metadata.revision, 0) + 1),
        commit |-> Some(OidToString(id)),
        history |-> Some(IF Some(OidToString(id)) = metadata.commit
                         THEN history
                         ELSE Append(history, OidToString(id))),
        pr_url |-> Some(UnwrapOr(pr.html_url, <<>>))]

\* a watch channel: its value, and whether its Sender was dropped
Watch(v) == [val |-> v, closed |-> FALSE]

\* watch::Receiver::wait_for(is_some): the value when it is Some, an error when
\* it is None and the Sender is gone, and no answer yet otherwise
WatchReady(w) == w.val # None \/ w.closed
WatchFailed(w) == w.val = None /\ w.closed

(***************************************************************************)
(* What an earlier invocation left behind.  The first `prior` commits of   *)
(* the stack were submitted before, in a stack of their own and without    *)
(* notes; those from index `amended_from` on were amended since, and their *)
(* notes carried over to the new ids.                                      *)
(***************************************************************************)
PriorId(i, amended_from) == IF i >= amended_from THEN OldIds[i] ELSE StackAB[i]

PriorBranch(indexed, i, amended_from) ==
    BranchName(DefaultMetadata, indexed, i - 1, PriorId(i, amended_from))

PriorFooter(prior) ==
    RenderFooter([k \in 1..prior |->
        [number |-> prior + 1 - k, title |-> CommitTitle[prior + 1 - k]]])

PriorPr(indexed, i, prior, amended_from) ==
    [NewPr(i, CommitTitle[i], PriorBranch(indexed, i, amended_from),
           IF i = 1 THEN StackUpstream
           ELSE PriorBranch(indexed, i - 1, amended_from),
           <<CommitBody[i]>>)
     EXCEPT !.body = Some(SpliceBody(Some(<<CommitBody[i]>>), PriorFooter(prior)))]

PriorNote(indexed, i, prior, amended_from) ==
    IF i > prior THEN DefaultMetadata
    ELSE PostMetadata(DefaultMetadata, PriorId(i, amended_from),
                      PriorBranch(indexed, i, amended_from),
                      PriorPr(indexed, i, prior, amended_from))

PriorRefs(indexed, prior, amended_from) ==
    [n \in {PathJoin(RefsHeads, PriorBranch(indexed, i, amended_from)) :
                i \in 1..prior}
        |-> OidToString(PriorId(
                CHOOSE i \in 1..prior :
                    PathJoin(RefsHeads, PriorBranch(indexed, i, amended_from)) = n,
                amended_from))]

\* the Commits of the stack now: an amended commit has a new title when the
\* amend changed its message
CommitsAB(retitled, prior, amended_from) ==
    [i \in 1..Len(StackAB) |->
        [id |-> StackAB[i],
         title |-> IF retitled /\ amended_from <= i /\ i <= prior
                   THEN AmendedTitle[i] ELSE CommitTitle[i],
         body |-> CommitBody[i]]]

\* a remote on which the branch the bottom commit will be pushed to exists
\* already and points to a commit that is no ancestor of it
StaleRefs(indexed) ==
    [n \in {PathJoin(RefsHeads, BranchName(DefaultMetadata, indexed, 0, StackAB[1]))}
        |-> OidToString(OidA2)]

(***************************************************************************)
(* submit (submit.rs): the per-commit tasks, the footer renderer and the   *)
(* orchestrator.  A task's pushes go through the BatchedPusher above.      *)
(***************************************************************************)
NoFooterTask == [at |-> 1, state |-> "idle"]

\* no invocation is running: for the specifications that do not use submit
SubIdle ==
    /\ use_indexed_branches = TRUE
    /\ authoritative_commits = FALSE
    /\ stack = CommitsAB(FALSE, 0, 1)
    /\ loaded = [t \in Tasks |-> DefaultMetadata]
    /\ notes = loaded
    /\ prs = <<>>
    /\ prs_before = prs
    /\ tpc = [t \in Tasks |-> "idle"]
    /\ twoken = [t \in Tasks |-> FALSE]
    /\ bn = [t \in Tasks |-> Watch(None)]
    /\ pri = [t \in Tasks |-> Watch(None)]
    /\ footer = Watch(None)
    /\ fpc = NoFooterTask
    /\ fprs = <<>>
    /\ tbase = [t \in Tasks |-> <<>>]
    /\ tpr = [t \in Tasks |-> [pr |-> NoPr, created |-> FALSE]]
    /\ tret = [t \in Tasks |-> None]
    /\ completed = <<>>
    /\ written = <<>>
    /\ opc = "idle"
    /\ ores = "None"
    /\ fcalls = [t \in Tasks |-> {}]
    /\ tfail = [t \in Tasks |-> ""]

\* submit, lines 336-392, on the commits and their metadata as Stack loaded
\* them, with the forge and the remote as they are: the channels are made and
\* the tasks spawned; nothing has been polled yet
SubStart(indexed, authoritative, commits, metadata, forge, refs) ==
    /\ use_indexed_branches = indexed
    /\ authoritative_commits = authoritative
    /\ stack = commits
    /\ loaded = metadata
    /\ notes = loaded
    /\ prs = forge
    /\ prs_before = prs
    /\ remote_refs = refs
    /\ refs_before = remote_refs
    /\ tpc = [t \in Tasks |-> "spawned"]
    /\ twoken = [t \in Tasks |-> FALSE]
    /\ bn = [t \in Tasks |-> Watch(loaded[t].branch)]
    /\ pri = [t \in Tasks |-> Watch(None)]
    /\ footer = Watch(None)
    /\ fpc = [at |-> 1, state |-> "waiting"]
    /\ fprs = <<>>
    /\ tbase = [t \in Tasks |-> <<>>]
    /\ tpr = [t \in Tasks |-> [pr |-> NoPr, created |-> FALSE]]
    /\ tret = [t \in Tasks |-> None]
    /\ completed = <<>>
    /\ written = <<>>
    /\ opc = "connect"
    /\ ores = "None"
    /\ fcalls = [t \in Tasks |-> {}]
    /\ tfail = [t \in Tasks |-> ""]
    /\ req = [p \in Producers \cup Tasks |-> NoReq]
    /\ ppc = [p \in Producers \cup Tasks |-> "idle"]
    /\ chan = [p \in Producers \cup Tasks |-> ChanOpen]
    /\ res = [p \in Producers \cup Tasks |-> ResNone]
    /\ pending = <<>>
    /\ wpc = "idle"
    /\ wwoken = FALSE
    /\ drained = <<>>
    /\ wres = "None"
    /\ tcalls = 0
    /\ targ = <<>>
    /\ tmode = "none"
    /\ tres = "None"
    /\ outcome = <<>>

\* The stack of two commits after what an earlier invocation may have left:
\*   prior, amended_from   as above; `retitled` when the amended commits also
\*                         got new titles;
\*   flushed               whether that invocation wrote its notes, or failed
\*                         after its tasks had pushed and created (FALSE);
\*   stale                 nothing was submitted, but the branch of the bottom
\*                         commit exists on the remote at an unrelated commit.
SubInit ==
    \E indexed, authoritative, flushed, retitled, stale \in BOOLEAN,
       prior \in 0..Len(StackAB), amended_from \in 1..(Len(StackAB) + 1) :
        /\ amended_from <= prior + 1
        /\ ~flushed => (prior >= 1 /\ amended_from = prior + 1)
        /\ retitled => amended_from <= prior
        /\ stale => (prior = 0 /\ flushed)
        /\ SubStart(indexed, authoritative,
                    CommitsAB(retitled, prior, amended_from),
                    [t \in 1..Len(StackAB) |->
                        IF flushed THEN PriorNote(indexed, t, prior, amended_from)
                        ELSE DefaultMetadata],
                    [i \in 1..prior |-> PriorPr(indexed, i, prior, amended_from)],
                    IF stale THEN StaleRefs(indexed)
                    ELSE PriorRefs(indexed, prior, amended_from))

\* submit_commit returns, or the task's future ends: both Senders it owns are
\* dropped and FuturesUnordered yields its result
TaskEnds(t, how) ==
    /\ tpc' = [tpc EXCEPT ![t] = how]
    /\ completed' = Append(completed, t)

\* submit_commit returns the error of the step it was at
TaskFails(t, step) ==
    /\ TaskEnds(t, "failed")
    /\ tfail' = [tfail EXCEPT ![t] = step]

\* the mutant of DropTx: the channel of a Sender that is dropped stays open
DropTx_Open(w, t) == w

DropTx(w, t) == [w EXCEPT ![t].closed = TRUE]

\* the mutant of TaskPoll: the gate lets a task through that comes to it
\* before it was signalled
TaskPoll_Open(t) ==
    /\ tpc[t] = "spawned"
    /\ tpc' = [tpc EXCEPT ![t] = "gate"]
    /\ twoken' = [twoken EXCEPT ![t] = TRUE]
    /\ UNCHANGED <<pushVars, given, notes, prs, bn, pri,
                   footer, fpc, fprs, tbase, tpr, tret, completed, written,
                   opc, ores, fcalls, tfail>>

\* the spawned task, line 367: notified() creates the future on the first poll
TaskPoll(t) ==
    /\ tpc[t] = "spawned"
    /\ tpc' = [tpc EXCEPT ![t] = "gate"]
    /\ twoken' = [twoken EXCEPT ![t] = FALSE]
    /\ UNCHANGED <<pushVars, given, notes, prs, bn, pri,
                   footer, fpc, fprs, tbase, tpr, tret, completed, written,
                   opc, ores, fcalls, tfail>>

\* lines 367-151: the gate opens, the branch name and the force flag are
\* computed and push is called
TaskGate(t) ==
    /\ tpc[t] = "gate"
    /\ twoken[t]
    /\ req' = [req EXCEPT ![t] =
                 [commit |-> stack[t].id,
                  branch |-> BranchName(loaded[t], use_indexed_branches,
                                        t - 1, stack[t].id),
                  force |-> ForcePush(loaded[t])]]
    /\ ppc' = [ppc EXCEPT ![t] = "start"]
    /\ tpc' = [tpc EXCEPT ![t] = "push"]
    /\ UNCHANGED <<chan, res, pending, wpc, wwoken, drained, wres, remote_refs,
                   tcalls, targ, tmode, tres, refs_before, outcome>>
    /\ UNCHANGED <<given, notes, prs, twoken, bn, pri,
                   footer, fpc, fprs, tbase, tpr, tret, completed, written,
                   opc, ores, fcalls, tfail>>

\* the mutant of TaskPushed: the task goes on whatever push returned
TaskPushed_Anyway(t) ==
    /\ tpc[t] = "push"
    /\ PushReturn(t)
    /\ bn' = [bn EXCEPT ![t].val = Some(req[t].branch)]
    /\ tpc' = [tpc EXCEPT ![t] = "base"]
    /\ UNCHANGED <<pri, completed, tfail>>
    /\ UNCHANGED <<given, notes, prs, twoken,
                   footer, fpc, fprs, tbase, tpr, tret, written, opc, ores, fcalls>>

\* lines 150-155: push returns; an error ends the task, Ok publishes the
\* branch name
TaskPushed(t) ==
    /\ tpc[t] = "push"
    /\ PushReturn(t)
    /\ IF res'[t] = ResOk
       THEN /\ bn' = [bn EXCEPT ![t].val = Some(req[t].branch)]
            /\ tpc' = [tpc EXCEPT ![t] = "base"]
            /\ UNCHANGED <<pri, completed, tfail>>
       ELSE /\ bn' = DropTx(bn, t)
            /\ pri' = DropTx(pri, t)
            /\ TaskFails(t, "push")
    /\ UNCHANGED <<given, notes, prs, twoken,
                   footer, fpc, fprs, tbase, tpr, tret, written, opc, ores, fcalls>>

\* the mutant of TaskBase: every commit's base is the upstream
TaskBase_Upstream(t) ==
    /\ tpc[t] = "base"
    /\ tbase' = [tbase EXCEPT ![t] = StackUpstream]
    /\ tpc' = [tpc EXCEPT ![t] = "forge"]
    /\ UNCHANGED <<bn, pri, completed>>
    /\ UNCHANGED <<pushVars, given, notes, prs, twoken,
                   footer, fpc, fprs, tpr, tret, written, opc, ores, fcalls, tfail>>

\* lines 158-174: the base is the upstream for the bottom commit, and else
\* what the parent's channel holds once that is Some
TaskBase(t) ==
    /\ tpc[t] = "base"
    /\ IF t = 1
       THEN /\ tbase' = [tbase EXCEPT ![t] = StackUpstream]
            /\ tpc' = [tpc EXCEPT ![t] = "forge"]
            /\ UNCHANGED <<bn, pri, completed, tfail>>
       ELSE /\ WatchReady(bn[t - 1])
            /\ IF WatchFailed(bn[t - 1])
               THEN /\ bn' = DropTx(bn, t)
                    /\ pri' = DropTx(pri, t)
                    /\ TaskFails(t, "base")
                    /\ UNCHANGED tbase
               ELSE /\ tbase' = [tbase EXCEPT ![t] = bn[t - 1].val[1]]
                    /\ tpc' = [tpc EXCEPT ![t] = "forge"]
                    /\ UNCHANGED <<bn, pri, completed, tfail>>
    /\ UNCHANGED <<pushVars, given, notes, prs, twoken,
                   footer, fpc, fprs, tpr, tret, written, opc, ores, fcalls>>

\* lines 177-207: the review request is fetched when the metadata names one
\* and created otherwise, and its number published; the forge answers or fails
TaskForge(t, ok) ==
    /\ tpc[t] = "forge"
    /\ LET known == loaded[t].pr # None
           found == known /\ loaded[t].pr[1] \in 1..Len(prs)
           made == NewPr(Len(prs) + 1, stack[t].title, req[t].branch, tbase[t],
                         <<stack[t].body>>)
           pr == IF known THEN prs[loaded[t].pr[1]] ELSE made
       IN /\ fcalls' = [fcalls EXCEPT ![t] =
                          @ \cup {IF known THEN "get" ELSE "create"}]
          /\ IF ok /\ (known => found)
             THEN /\ prs' = IF known THEN prs ELSE Append(prs, made)
                  /\ tpr' = [tpr EXCEPT ![t] = [pr |-> pr, created |-> ~known]]
                  /\ pri' = [pri EXCEPT ![t].val = Some(PrInfoOf(pr))]
                  /\ tpc' = [tpc EXCEPT ![t] = "footer"]
                  /\ UNCHANGED <<bn, completed, tfail>>
             ELSE /\ bn' = DropTx(bn, t)
                  /\ pri' = DropTx(pri, t)
                  /\ TaskFails(t, "forge")
                  /\ UNCHANGED <<prs, tpr>>
    /\ UNCHANGED <<pushVars, given, notes, twoken,
                   footer, fpc, fprs, tbase, tret, written, opc, ores>>

\* lines 214-221: the task waits for the footer
TaskFooter(t) ==
    /\ tpc[t] = "footer"
    /\ WatchReady(footer)
    /\ IF WatchFailed(footer)
       THEN /\ bn' = DropTx(bn, t)
            /\ pri' = DropTx(pri, t)
            /\ TaskFails(t, "footer")
       ELSE /\ tpc' = [tpc EXCEPT ![t] = "update"]
            /\ UNCHANGED <<bn, pri, completed, tfail>>
    /\ UNCHANGED <<pushVars, given, notes, prs, twoken,
                   footer, fpc, fprs, tbase, tpr, tret, written, opc, ores, fcalls>>

\* lines 223-259: the review request gets its base and the body with the
\* footer, and the task returns the commit's new metadata
TaskUpdate(t, ok) ==
    /\ tpc[t] = "update"
    /\ IF ok
       THEN /\ prs' = [prs EXCEPT
                        ![tpr[t].pr.number].base = tbase[t],
                        ![tpr[t].pr.number].body =
                            Some(SpliceBody(tpr[t].pr.body, footer.val[1]))]
            /\ tret' = [tret EXCEPT ![t] =
                          Some(PostMetadata(loaded[t], stack[t].id, req[t].branch,
                                            tpr[t].pr))]
            /\ TaskEnds(t, "done")
            /\ UNCHANGED tfail
       ELSE /\ TaskFails(t, "update")
            /\ UNCHANGED <<prs, tret>>
    /\ fcalls' = [fcalls EXCEPT ![t] = @ \cup {"update"}]
    /\ bn' = DropTx(bn, t)
    /\ pri' = DropTx(pri, t)
    /\ UNCHANGED <<pushVars, given, notes, twoken,
                   footer, fpc, fprs, tbase, tpr, written, opc, ores>>

\* the mutant of FooterWait: the footer is rendered and sent as soon as the
\* bottom commit's info is there
FooterWait_First ==
    /\ fpc.state = "waiting"
    /\ WatchReady(pri[fpc.at])
    /\ IF WatchFailed(pri[fpc.at])
       THEN /\ fpc' = [fpc EXCEPT !.state = "failed"]
            /\ footer' = [footer EXCEPT !.closed = TRUE]
            /\ UNCHANGED fprs
       ELSE /\ fprs' = <<pri[fpc.at].val[1]>> \o fprs
            /\ footer' = [val |-> Some(RenderFooter(fprs')), closed |-> TRUE]
            /\ fpc' = [fpc EXCEPT !.state = "rendered"]
    /\ UNCHANGED <<pushVars, given, notes, prs, tpc,
                   twoken, bn, pri, tbase, tpr, tret, completed, written,
                   opc, ores, fcalls, tfail>>

\* render_footer, lines 293-323: the commits' infos are awaited in stack order
\* and each put at the front of the list; after the last the footer is
\* rendered and sent.  An info that will never come ends the renderer, and
\* with it the footer's Sender.
FooterWait ==
    /\ fpc.state = "waiting"
    /\ WatchReady(pri[fpc.at])
    /\ IF WatchFailed(pri[fpc.at])
       THEN /\ fpc' = [fpc EXCEPT !.state = "failed"]
            /\ footer' = [footer EXCEPT !.closed = TRUE]
            /\ UNCHANGED fprs
       ELSE /\ fprs' = <<pri[fpc.at].val[1]>> \o fprs
            /\ IF fpc.at = Len(stack)
               THEN /\ footer' = [val |-> Some(RenderFooter(fprs')),
                                  closed |-> TRUE]
                    /\ fpc' = [fpc EXCEPT !.state = "rendered"]
               ELSE /\ fpc' = [fpc EXCEPT !.at = fpc.at + 1]
                    /\ UNCHANGED footer
    /\ UNCHANGED <<pushVars, given, notes, prs, tpc,
                   twoken, bn, pri, tbase, tpr, tret, completed, written,
                   opc, ores, fcalls, tfail>>

\* submit, lines 416-422: the connection is made or not; when it is, the gate
\* is signalled to the tasks waiting at it and wait_for is called
OrchConnect(ok) ==
    /\ opc = "connect"
    /\ IF ok
       THEN /\ twoken' = [t \in Tasks |-> twoken[t] \/ tpc[t] = "gate"]
            /\ wpc' = "check"
            /\ opc' = "wait_for"
            /\ UNCHANGED ores
       ELSE /\ opc' = "done"
            /\ ores' = "Err"
            /\ UNCHANGED <<twoken, wpc>>
    /\ UNCHANGED <<req, ppc, chan, res, pending, wwoken, drained, wres,
                   remote_refs, tcalls, targ, tmode, tres, refs_before, outcome>>
    /\ UNCHANGED <<given, notes, prs, tpc, bn, pri,
                   footer, fpc, fprs, tbase, tpr, tret, completed, written,
                   fcalls, tfail>>

\* submit, line 422: wait_for returned an error and `?` returns it
OrchPushFailed ==
    /\ opc = "wait_for"
    /\ wpc = "done"
    /\ wres = "Err"
    /\ opc' = "done"
    /\ ores' = "Err"
    /\ UNCHANGED <<pushVars, given, notes, prs, tpc,
                   twoken, bn, pri, footer, fpc, fprs, tbase, tpr, tret,
                   completed, written, fcalls, tfail>>

\* submit, lines 431-437 over `results`: how many notes are written before
\* the loop ends, at the first Err or after the last result
FlushCount(results, places) ==
    IF \E i \in 1..Len(results) : places[results[i]] = "failed"
    THEN (CHOOSE i \in 1..Len(results) :
            /\ places[results[i]] = "failed"
            /\ \A j \in 1..(i - 1) : places[results[j]] # "failed") - 1
    ELSE Len(results)

\* the mutant of OrchFlush: the results are flushed without waiting for every
\* task to complete
OrchFlush_Early ==
    /\ opc = "wait_for"
    /\ wpc = "done"
    /\ wres = "Ok"
    /\ LET n == FlushCount(completed, tpc)
           done == {completed[i] : i \in 1..n}
       IN /\ written' = [i \in 1..n |-> stack[completed[i]].id]
          /\ notes' = [t \in Tasks |-> IF t \in done THEN tret[t][1] ELSE notes[t]]
          /\ ores' = IF n < Len(completed) THEN "Err" ELSE "Ok"
    /\ opc' = "done"
    /\ UNCHANGED <<pushVars, given, prs, tpc, twoken,
                   bn, pri, footer, fpc, fprs, tbase, tpr, tret, completed,
                   fcalls, tfail>>

\* submit, lines 425-441: every task has been joined; the results are gone
\* through in the order they came and each Ok one's metadata is written
OrchFlush ==
    /\ opc = "wait_for"
    /\ wpc = "done"
    /\ wres = "Ok"
    /\ \A t \in Tasks : tpc[t] \in {"done", "failed"}
    /\ LET n == FlushCount(completed, tpc)
           done == {completed[i] : i \in 1..n}
       IN /\ written' = [i \in 1..n |-> stack[completed[i]].id]
          /\ notes' = [t \in Tasks |-> IF t \in done THEN tret[t][1] ELSE notes[t]]
          /\ ores' = IF n < Len(completed) THEN "Err" ELSE "Ok"
    /\ opc' = "done"
    /\ UNCHANGED <<pushVars, given, prs, tpc, twoken,
                   bn, pri, footer, fpc, fprs, tbase, tpr, tret, completed,
                   fcalls, tfail>>

(***************************************************************************)
(* pr.rs: the footer splice.  A text is a sequence of tokens, of which the *)
(* delimiter is one.                                                       *)
(***************************************************************************)
\* pr.rs, join_footer
join_footer(body, foot) == body \o <<BlankLine, BODY_DELIM, BlankLine>> \o foot

\* the places of the delimiter in a text
DelimAt(full) == {i \in 1..Len(full) : full[i] = BODY_DELIM}

\* str::split(BODY_DELIM).nth(k - 1), for k = 1 and k = 2: the text before the
\* first delimiter, and the text between the first and the second (or the
\* end); None when there is no such piece
SplitPiece(full, k) ==
    LET at == DelimAt(full)
        first == CHOOSE i \in at : \A j \in at : i <= j
        rest == at \ {first}
        second == CHOOSE i \in rest : \A j \in rest : i <= j
    IN IF k = 1
       THEN Some(IF at = {} THEN full ELSE SubSeq(full, 1, first - 1))
       ELSE IF at = {} THEN None
       ELSE Some(IF rest = {} THEN SubSeq(full, first + 1, Len(full))
                 ELSE SubSeq(full, first + 1, second - 1))

\* pr.rs, split_footer: the pair (body, footer)
split_footer(full) ==
    <<UnwrapOr(SplitPiece(full, 1), <<>>), UnwrapOr(SplitPiece(full, 2), <<>>)>>

(***************************************************************************)
(* The footer splice on its own: a body and a footer are joined and the    *)
(* joined text is split again.                                             *)
(***************************************************************************)
\* the longest body and the longest footer, in tokens
MaxText == 2

\* the tokens of a text: a word, a blank line, the delimiter
TextTokens == {"t", BlankLine, BODY_DELIM}

\* the texts of up to n tokens
TextsUpTo(n, tokens) == UNION {[1..k -> tokens] : k \in 0..n}

\* the bodies that do not contain the delimiter, and the footers
SpliceBodies == TextsUpTo(MaxText, TextTokens \ {BODY_DELIM})
SpliceFooters == TextsUpTo(MaxText, TextTokens)

\* nothing is spliced: for the specifications of the other components
SpliceIdle ==
    splice = [pc |-> "idle", body |-> <<>>, footer |-> <<>>, full |-> <<>>,
              parts |-> <<>>]

SpliceInit ==
    \E b \in SpliceBodies, f \in SpliceFooters :
        splice = [pc |-> "join", body |-> b, footer |-> f, full |-> <<>>,
                  parts |-> <<>>]

\* join_footer is applied to the body and the footer
Join ==
    /\ splice.pc = "join"
    /\ splice' = [splice EXCEPT !.pc = "split",
                                !.full = join_footer(splice.body, splice.footer)]

\* split_footer is applied to the joined text
Split ==
    /\ splice.pc = "split"
    /\ splice' = [splice EXCEPT !.pc = "done",
                                !.parts = split_footer(splice.full)]

(***************************************************************************)
(* PR::update (pr.rs) on its own: one call on a review request.            *)
(***************************************************************************)
\* PartialUpdate { title, body, footer, base }, every field an Option
PartialUpdate(title, body, foot, base) ==
    [title |-> title, body |-> body, footer |-> foot, base |-> base]

\* the request PR::update builds and sends: a field that is None is not in it
PR_update(pr, data) ==
    LET parts == split_footer(UnwrapOr(pr.body, <<>>))
        original_body == parts[1]
        original_footer == parts[2]
        new_body ==
            IF data.body # None /\ data.footer # None
            THEN Some(join_footer(data.body[1], data.footer[1]))
            ELSE IF data.body # None
            THEN Some(join_footer(data.body[1], original_footer))
            ELSE IF data.footer # None
            THEN Some(join_footer(original_body, data.footer[1]))
            ELSE None
    IN [number |-> pr.number, title |-> None, base |-> data.base,
        body |-> new_body]

\* no request was built
NoRequest == [number |-> 0, title |-> None, base |-> None, body |-> None]

\* the bodies of the review request updated: none, one without a footer, one
\* as join_footer makes it, one with the delimiter and no blank lines
UpdateBodies ==
    {None, Some(<<"t">>), Some(join_footer(<<"t">>, <<"f">>)),
     Some(<<"t", BODY_DELIM, "f">>)}

UpdateData ==
    {PartialUpdate(title, body, foot, base) :
        title \in {None, Some("n")}, body \in {None, Some(<<"u">>)},
        foot \in {None, Some(<<"g">>)}, base \in {None, Some(<<"main">>)}}

UpdateIdle ==
    upd = [pc |-> "idle", pr |-> NoPr, data |-> PartialUpdate(None, None, None, None),
           sent |-> NoRequest]

UpdateInit ==
    \E b \in UpdateBodies, d \in UpdateData :
        upd = [pc |-> "call", pr |-> [NoPr EXCEPT !.number = 1, !.body = b],
               data |-> d, sent |-> NoRequest]

\* PR::update is called and its request sent
Update ==
    /\ upd.pc = "call"
    /\ upd' = [upd EXCEPT !.pc = "sent", !.sent = PR_update(upd.pr, upd.data)]

(***************************************************************************)
(* Refspec (push.rs) on its own: one is built and written as a string.     *)
(***************************************************************************)
\* the longest branch string, in tokens
MaxBranch == 3

\* the branch strings: "/" and a name, in any order
RefspecBranches == TextsUpTo(MaxBranch, {"/", "x"})
RefspecCommits == {OidA, OidB}

RefspecIdle ==
    rspec = [pc |-> "idle", commit |-> OidZero, branch |-> <<>>, force |-> FALSE,
             built |-> Refspec_new(OidZero, <<>>, FALSE), str |-> <<>>]

RefspecInit ==
    \E c \in RefspecCommits, b \in RefspecBranches, f \in BOOLEAN :
        rspec = [pc |-> "new", commit |-> c, branch |-> b, force |-> f,
                 built |-> Refspec_new(OidZero, <<>>, FALSE), str |-> <<>>]

\* Refspec::new
RefspecNew ==
    /\ rspec.pc = "new"
    /\ rspec' = [rspec EXCEPT
                    !.pc = "built",
                    !.built = Refspec_new(rspec.commit, rspec.branch, rspec.force)]

\* Refspec::to_string
RefspecToString ==
    /\ rspec.pc = "built"
    /\ rspec' = [rspec EXCEPT !.pc = "done",
                              !.str = Refspec_to_string(rspec.built)]

(***************************************************************************)
(* Stack::new (stack.rs) on its own: the commits the revwalk yields are    *)
(* made into Commits and collected.                                        *)
(***************************************************************************)
\* the most commits between the merge base and the head
MaxWalk == 4

\* the ids of the commits walked, the one next to the merge base first
WalkIds == <<OidA, OidB, OidC, OidB3, OidA2, OidB2>>

\* a git2::Commit: its id and the ids of its parents.  The first parent of a
\* walked commit is the commit walked before it (the merge base for the
\* first), a second parent is a commit of another line.
GitCommit(i, parent_count) ==
    [id |-> WalkIds[i],
     parents |-> SubSeq(<<IF i = 1 THEN OidInit ELSE WalkIds[i - 1], OidZero>>,
                        1, parent_count)]

\* the revwalks: up to MaxWalk commits, each a root, a commit with one
\* parent, or a merge
Revwalks ==
    UNION {{[i \in 1..k |-> GitCommit(i, counts[i])] : counts \in [1..k -> 0..2]} :
            k \in 0..MaxWalk}

\* Result<T>
Ok(v) == [ok |-> TRUE, val |-> v]
Err(msg) == [ok |-> FALSE, val |-> msg]

\* Commit::new: parent_id(0) fails on a commit without parents
Commit_new(commit) ==
    IF Len(commit.parents) = 0 THEN Err("get parent")
    ELSE Ok([id |-> commit.id, parent |-> commit.parents[1]])

RECURSIVE Collect(_)
\* Iterator::collect::<Result<Vec<_>>>() over Commit::new: the first Err, or
\* all the Commits in the order walked
Collect(walk) ==
    IF walk = <<>> THEN Ok(<<>>)
    ELSE LET first == Commit_new(Head(walk))
             rest == Collect(Tail(walk))
         IN IF ~first.ok THEN first
            ELSE IF ~rest.ok THEN rest
            ELSE Ok(<<first.val>> \o rest.val)

\* Stack::new, lines 49-70, on what the revwalk yields
Stack_new(walk) ==
    LET commits == Collect(walk)
    IN IF commits.ok THEN Ok([commits |-> commits.val, name |-> StackName[1]])
       ELSE Err("failed to get commits in stack")

StackNewIdle == walked = [pc |-> "idle", walk |-> <<>>, result |-> Err("")]

StackNewInit ==
    \E w \in Revwalks : walked = [pc |-> "new", walk |-> w, result |-> Err("")]

\* Stack::new is called
StackNew ==
    /\ walked.pc = "new"
    /\ walked' = [walked EXCEPT !.pc = "done", !.result = Stack_new(walked.walk)]

(***************************************************************************)
(* submit_commit's choice of branch and force flag (submit.rs) on its own. *)
(***************************************************************************)
\* the highest index of a commit in its stack
MaxIndex == 2

ChoosePrefixes == {None, Some(<<"me">>)}
ChooseBranches == {None, Some(<<"old">>), Some(<<"fel", "/", "feature", "/", "0">>)}
ChooseIds == {OidA, OidB, OidA2}

\* the arguments of a push call
PushArgs(commit, branch, force) ==
    [commit |-> commit, branch |-> branch, force |-> force]

ChooseIdle ==
    chosen = [pc |-> "idle", prefix |-> None, metadata |-> DefaultMetadata,
              indexed |-> FALSE, index |-> 0, id |-> OidZero,
              push |-> PushArgs(OidZero, <<>>, FALSE)]

ChooseInit ==
    \E prefix \in ChoosePrefixes, branch \in ChooseBranches, indexed \in BOOLEAN,
       index \in 0..MaxIndex, id \in ChooseIds :
        chosen = [pc |-> "start", prefix |-> prefix,
                  metadata |-> [DefaultMetadata EXCEPT !.branch = branch],
                  indexed |-> indexed, index |-> index, id |-> id,
                  push |-> PushArgs(OidZero, <<>>, FALSE)]

\* submit_commit, lines 133-151: the force flag and the branch name are
\* computed and push is called with them
Choose ==
    /\ chosen.pc = "start"
    /\ chosen' = [chosen EXCEPT
                     !.pc = "push",
                     !.push = PushArgs(chosen.id,
                                  BranchNameWith(chosen.prefix, chosen.metadata,
                                                 chosen.indexed, chosen.index,
                                                 chosen.id),
                                  ForcePush(chosen.metadata))]

(***************************************************************************)
(* One commit over several submits (submit.rs, metadata.rs): the commit is *)
(* submitted, amended, submitted again.  The notes of refs/notes/fel are   *)
(* kept by commit id; git copies a rewritten commit's note to the commit   *)
(* that replaces it (main.rs requires notes.rewriteRef to name the ref).   *)
(***************************************************************************)
\* how many times the commit is submitted
MaxSubmits == 3

\* the ids the commit has over its life
LifeIds == {OidA, OidA2, OidC}

\* the review request the submits of the commit get from the forge
LifePr == NewPr(1, CommitTitle[1], <<>>, StackUpstream, <<CommitBody[1]>>)

LifeIdle ==
    life = [pc |-> "idle", id |-> OidZero,
            notes |-> [i \in LifeIds |-> DefaultMetadata], submitted |-> <<>>]

\* the commit was made and no note exists
LifeInit ==
    \E id \in LifeIds :
        life = [pc |-> "run", id |-> id,
                notes |-> [i \in LifeIds |-> DefaultMetadata], submitted |-> <<>>]

\* Metadata::new, lines 21-43: the commit's note, or the default without one
Metadata_new(repo, commit) == repo[commit]

\* Metadata::write, lines 48-57: the commit's note is overwritten
Metadata_write(repo, commit, metadata) == [repo EXCEPT ![commit] = metadata]

\* a submit that succeeds: the metadata submit_commit returns for the commit
\* (lines 237-259) is written as its note (submit, lines 431-437)
LifeSubmit ==
    /\ life.pc = "run"
    /\ Len(life.submitted) < MaxSubmits
    /\ LET metadata == Metadata_new(life.notes, life.id)
           branch_name == BranchName(metadata, FALSE, 0, life.id)
       IN life' = [life EXCEPT
                     !.notes = Metadata_write(life.notes, life.id,
                                   PostMetadata(metadata, life.id, branch_name, LifePr)),
                     !.submitted = Append(life.submitted, life.id)]

\* the commit is amended and has another id, one it never had or one it had
\* before; the note of the commit it replaces is copied to it by git's note
\* rewriting, or (a commit that is only checked out again) it has the note
\* it had
LifeAmend(id, copied) ==
    /\ life.pc = "run"
    /\ id # life.id
    /\ copied => life.notes[life.id] # DefaultMetadata
    /\ life' = [life EXCEPT
                  !.id = id,
                  !.notes = IF copied
                            THEN Metadata_write(life.notes, id, life.notes[life.id])
                            ELSE life.notes]

\* no batch of the pusher has finished
BatchesIdle == batches = <<>>

\* none of the pure functions is applied
PureIdle ==
    /\ SpliceIdle /\ UpdateIdle /\ RefspecIdle /\ StackNewIdle /\ ChooseIdle
    /\ LifeIdle /\ BatchesIdle

(***************************************************************************)
(* The pusher on its own, as test::push_branches drives it: NumProducers   *)
(* tasks each call push once and one task calls wait_for(NumProducers).    *)
(***************************************************************************)
\* the remote before the batch: x was pushed before and points to OidA2, which
\* is no ancestor of what is pushed now; y does not exist, or points to an
\* ancestor of what is pushed now, or to OidA2
RemoteFixtures ==
    {[n \in RefNames |->
        IF n = Refspec_refname(Refspec_new(OidB, <<"x">>, FALSE))
        THEN OidToString(OidA2) ELSE y] :
     y \in {<<>>, OidToString(OidInit), OidToString(OidA2)}}

PushInit ==
    /\ req \in [Producers -> [commit : PushCommits, branch : PushBranches,
                              force : BOOLEAN]]
    /\ ppc = [p \in Producers |-> "start"]
    /\ chan = [p \in Producers |-> ChanOpen]
    /\ res = [p \in Producers |-> ResNone]
    /\ pending = <<>>
    /\ wpc = "check"
    /\ wwoken = FALSE
    /\ drained = <<>>
    /\ wres = "None"
    /\ remote_refs \in RemoteFixtures
    /\ tcalls = 0
    /\ targ = <<>>
    /\ tmode = "none"
    /\ tres = "None"
    /\ refs_before = remote_refs
    /\ outcome = <<>>

\* the pusher at rest, for the specifications that do not use it
PushIdle ==
    /\ req = [p \in Producers |-> NoReq]
    /\ ppc = [p \in Producers |-> "idle"]
    /\ chan = [p \in Producers |-> ChanOpen]
    /\ res = [p \in Producers |-> ResNone]
    /\ pending = <<>>
    /\ wpc = "idle"
    /\ wwoken = FALSE
    /\ drained = <<>>
    /\ wres = "None"
    /\ remote_refs = [n \in RefNames |-> <<>>]
    /\ tcalls = 0
    /\ targ = <<>>
    /\ tmode = "none"
    /\ tres = "None"
    /\ refs_before = remote_refs
    /\ outcome = <<>>

ProducerStep(p) == PushEnqueue(p) \/ PushNotify(p) \/ PushReturn(p)

WaitForStep ==
    \/ WaitForCheck(NumProducers)
    \/ WaitForNotified
    \/ WaitForWake
    \/ \E mode \in TransportModes : WaitForPush(mode)

InitPush == AmInit /\ PushInit /\ SubIdle /\ PureIdle

NextPush ==
    \/ \E p \in Producers : PushEnqueue(p) /\ UNCHANGED <<amVars, subVars, pureVars>>
    \/ \E p \in Producers : PushNotify(p) /\ UNCHANGED <<amVars, subVars, pureVars>>
    \/ \E p \in Producers : PushReturn(p) /\ UNCHANGED <<amVars, subVars, pureVars>>
    \/ WaitForCheck(NumProducers) /\ UNCHANGED <<amVars, subVars, pureVars>>
    \/ WaitForNotified /\ UNCHANGED <<amVars, subVars, pureVars>>
    \/ WaitForWake /\ UNCHANGED <<amVars, subVars, pureVars>>
    \/ \E mode \in TransportModes : WaitForPush(mode) /\ UNCHANGED <<amVars, subVars, pureVars>>

SpecPush == InitPush /\ [][NextPush]_vars

\* the executor runs every task that can run
FairSpecPush ==
    /\ SpecPush
    /\ \A p \in Producers : WF_vars(ProducerStep(p) /\ UNCHANGED <<amVars, subVars, pureVars>>)
    /\ WF_vars(WaitForStep /\ UNCHANGED <<amVars, subVars, pureVars>>)

(***************************************************************************)
(* The pusher used for one batch after the other, as test::push_branches   *)
(* does: when wait_for and every push call of a batch have returned, new   *)
(* commits are made and pushed through the same BatchedPusher.             *)
(***************************************************************************)
\* how many batches the pusher is used for
MaxBatches == 2

\* the commit the pushes of the k-th batch push: each round of the test makes
\* new commits
BatchCommit(k) == <<OidB, OidB2, OidB3, OidC>>[((k - 1) % 4) + 1]

\* what is kept of a batch that is over
BatchRecord ==
    [drained |-> drained, targ |-> targ, outcome |-> outcome, tres |-> tres,
     wres |-> wres, res |-> res]

\* test::push_branches, lines 213-232 and 241-260: the next round's tasks are
\* spawned, each calling push with a new commit and the round's force flag,
\* and wait_for is called again on the same pusher and the same remote
NextBatch(branches, force) ==
    /\ wpc = "done"
    /\ \A p \in Producers : ppc[p] = "done"
    /\ Len(batches) + 1 < MaxBatches
    /\ batches' = Append(batches, BatchRecord)
    /\ req' = [p \in Producers |->
                 [commit |-> BatchCommit(Len(batches) + 2), branch |-> branches[p],
                  force |-> force]]
    /\ ppc' = [p \in Producers |-> "start"]
    /\ chan' = [p \in Producers |-> ChanOpen]
    /\ res' = [p \in Producers |-> ResNone]
    /\ wpc' = "check"
    /\ wwoken' = FALSE
    /\ drained' = <<>>
    /\ wres' = "None"
    /\ targ' = <<>>
    /\ tmode' = "none"
    /\ tres' = "None"
    /\ refs_before' = remote_refs
    /\ outcome' = <<>>
    /\ UNCHANGED <<pending, remote_refs, tcalls>>

InitBatches == InitPush

NextBatches ==
    \/ \E p \in Producers : PushEnqueue(p) /\ UNCHANGED <<amVars, subVars, pureVars>>
    \/ \E p \in Producers : PushNotify(p) /\ UNCHANGED <<amVars, subVars, pureVars>>
    \/ \E p \in Producers : PushReturn(p) /\ UNCHANGED <<amVars, subVars, pureVars>>
    \/ WaitForCheck(NumProducers) /\ UNCHANGED <<amVars, subVars, pureVars>>
    \/ WaitForNotified /\ UNCHANGED <<amVars, subVars, pureVars>>
    \/ WaitForWake /\ UNCHANGED <<amVars, subVars, pureVars>>
    \/ \E mode \in TransportModes : WaitForPush(mode) /\ UNCHANGED <<amVars, subVars, pureVars>>
    \/ \E branches \in [Producers -> PushBranches], force \in BOOLEAN :
          NextBatch(branches, force)
             /\ UNCHANGED <<amVars, subVars, splice, upd, rspec, walked, chosen, life>>

SpecBatches == InitBatches /\ [][NextBatches]_vars

(***************************************************************************)
(* The AwaitMap on its own: readers call get, writers call insert.         *)
(***************************************************************************)
InitMap == AmInit /\ PushIdle /\ SubIdle /\ PureIdle

NextMap ==
    \/ \E w \in Writers, k \in Keys, v \in Values :
          Insert(w, k, v) /\ UNCHANGED <<pushVars, subVars, pureVars>>
    \/ \E w \in Writers : InsertNotify(w) /\ UNCHANGED <<pushVars, subVars, pureVars>>
    \/ \E r \in Readers, k \in Keys : GetCall(r, k) /\ UNCHANGED <<pushVars, subVars, pureVars>>
    \/ \E r \in Readers : GetCheck(r) /\ UNCHANGED <<pushVars, subVars, pureVars>>
    \/ \E r \in Readers : GetNotified(r) /\ UNCHANGED <<pushVars, subVars, pureVars>>
    \/ \E r \in Readers : GetWake(r) /\ UNCHANGED <<pushVars, subVars, pureVars>>

SpecMap == InitMap /\ [][NextMap]_vars

\* the executor runs every task that can run; nothing obliges a task to call
\* insert or get
FairSpecMap ==
    /\ SpecMap
    /\ \A w \in Writers : WF_vars(InsertNotify(w) /\ UNCHANGED <<pushVars, subVars, pureVars>>)
    /\ \A r \in Readers : WF_vars(GetStep(r) /\ UNCHANGED <<pushVars, subVars, pureVars>>)

\* the footer splice on its own
InitSplice ==
    AmInit /\ PushIdle /\ SubIdle /\ SpliceInit /\ UpdateIdle /\ RefspecIdle
        /\ StackNewIdle /\ ChooseIdle /\ LifeIdle /\ BatchesIdle

NextSplice ==
    \/ Join /\ UNCHANGED <<amVars, pushVars, subVars, upd, rspec, walked, chosen, life, batches>>
    \/ Split /\ UNCHANGED <<amVars, pushVars, subVars, upd, rspec, walked, chosen, life, batches>>

SpecSplice == InitSplice /\ [][NextSplice]_vars

\* PR::update on its own
InitUpdate ==
    AmInit /\ PushIdle /\ SubIdle /\ SpliceIdle /\ UpdateInit /\ RefspecIdle
        /\ StackNewIdle /\ ChooseIdle /\ LifeIdle /\ BatchesIdle

NextUpdate ==
    \/ Update /\ UNCHANGED <<amVars, pushVars, subVars, splice, rspec, walked, chosen, life, batches>>

SpecUpdate == InitUpdate /\ [][NextUpdate]_vars

\* Refspec on its own
InitRefspec ==
    AmInit /\ PushIdle /\ SubIdle /\ SpliceIdle /\ UpdateIdle /\ RefspecInit
        /\ StackNewIdle /\ ChooseIdle /\ LifeIdle /\ BatchesIdle

NextRefspec ==
    \/ RefspecNew /\ UNCHANGED <<amVars, pushVars, subVars, splice, upd, walked, chosen, life, batches>>
    \/ RefspecToString /\ UNCHANGED <<amVars, pushVars, subVars, splice, upd, walked, chosen, life, batches>>

SpecRefspec == InitRefspec /\ [][NextRefspec]_vars

\* Stack::new on its own
InitStackNew ==
    AmInit /\ PushIdle /\ SubIdle /\ SpliceIdle /\ UpdateIdle /\ RefspecIdle
        /\ StackNewInit /\ ChooseIdle /\ LifeIdle /\ BatchesIdle

NextStackNew ==
    \/ StackNew /\ UNCHANGED <<amVars, pushVars, subVars, splice, upd, rspec, chosen, life, batches>>

SpecStackNew == InitStackNew /\ [][NextStackNew]_vars

\* the choice of branch on its own
InitChoose ==
    AmInit /\ PushIdle /\ SubIdle /\ SpliceIdle /\ UpdateIdle /\ RefspecIdle
        /\ StackNewIdle /\ ChooseInit /\ LifeIdle /\ BatchesIdle

NextChoose ==
    \/ Choose /\ UNCHANGED <<amVars, pushVars, subVars, splice, upd, rspec, walked, life, batches>>

SpecChoose == InitChoose /\ [][NextChoose]_vars

\* one commit's life on its own
InitLife ==
    AmInit /\ PushIdle /\ SubIdle /\ SpliceIdle /\ UpdateIdle /\ RefspecIdle
        /\ StackNewIdle /\ ChooseIdle /\ LifeInit /\ BatchesIdle

NextLife ==
    \/ LifeSubmit /\ UNCHANGED <<amVars, pushVars, subVars, splice, upd, rspec, walked, chosen, batches>>
    \/ \E id \in LifeIds, copied \in BOOLEAN :
          LifeAmend(id, copied) /\ UNCHANGED <<amVars, pushVars, subVars, splice, upd, rspec, walked, chosen, batches>>

SpecLife == InitLife /\ [][NextLife]_vars

(***************************************************************************)
(* One invocation of submit on the stack, after what an earlier one left.  *)
(***************************************************************************)
InitSubmit == AmInit /\ SubInit /\ PureIdle

NextSubmit ==
    \/ \E ok \in BOOLEAN : OrchConnect(ok) /\ UNCHANGED <<amVars, pureVars>>
    \/ \E t \in Tasks : TaskPoll(t) /\ UNCHANGED <<amVars, pureVars>>
    \/ \E t \in Tasks : TaskGate(t) /\ UNCHANGED <<amVars, pureVars>>
    \/ \E t \in Tasks : PushEnqueue(t) /\ UNCHANGED <<amVars, subVars, pureVars>>
    \/ \E t \in Tasks : PushNotify(t) /\ UNCHANGED <<amVars, subVars, pureVars>>
    \/ \E t \in Tasks : TaskPushed(t) /\ UNCHANGED <<amVars, pureVars>>
    \/ \E t \in Tasks : TaskBase(t) /\ UNCHANGED <<amVars, pureVars>>
    \/ \E t \in Tasks, ok \in BOOLEAN : TaskForge(t, ok) /\ UNCHANGED <<amVars, pureVars>>
    \/ \E t \in Tasks : TaskFooter(t) /\ UNCHANGED <<amVars, pureVars>>
    \/ \E t \in Tasks, ok \in BOOLEAN : TaskUpdate(t, ok) /\ UNCHANGED <<amVars, pureVars>>
    \/ FooterWait /\ UNCHANGED <<amVars, pureVars>>
    \/ WaitForCheck(Len(stack)) /\ UNCHANGED <<amVars, subVars, pureVars>>
    \/ WaitForNotified /\ UNCHANGED <<amVars, subVars, pureVars>>
    \/ WaitForWake /\ UNCHANGED <<amVars, subVars, pureVars>>
    \/ \E mode \in TransportModes : WaitForPush(mode) /\ UNCHANGED <<amVars, subVars, pureVars>>
    \/ OrchPushFailed /\ UNCHANGED <<amVars, pureVars>>
    \/ OrchFlush /\ UNCHANGED <<amVars, pureVars>>

SpecSubmit == InitSubmit /\ [][NextSubmit]_vars

(***************************************************************************)
(* Scenario S4: [A, B] was submitted, a commit C was then inserted between *)
(* A and B, which rebased B, and [A, C, B] is submitted.                   *)
(***************************************************************************)
CommitsACB ==
    <<[id |-> OidA, title |-> CommitTitle[1], body |-> CommitBody[1]],
      [id |-> OidC, title |-> "c", body |-> "body of c"],
      [id |-> OidB3, title |-> CommitTitle[2], body |-> CommitBody[2]]>>

InitInsert ==
    /\ AmInit
    /\ \E indexed, authoritative \in BOOLEAN :
          SubStart(indexed, authoritative, CommitsACB,
                   <<PriorNote(indexed, 1, 2, 3), DefaultMetadata,
                     PriorNote(indexed, 2, 2, 3)>>,
                   [i \in 1..2 |-> PriorPr(indexed, i, 2, 3)],
                   PriorRefs(indexed, 2, 3))
    /\ PureIdle

SpecInsert == InitInsert /\ [][NextSubmit]_vars

(***************************************************************************)
(* submit under the tokio runtime: every spawned task, the footer renderer *)
(* and the orchestrator are polled whenever they can go on.                *)
(***************************************************************************)
\* one step of the task spawned for commit t
TaskStep(t) ==
    \/ /\ \/ TaskPoll(t)
          \/ TaskGate(t)
          \/ TaskPushed(t)
          \/ TaskBase(t)
          \/ \E ok \in BOOLEAN : TaskForge(t, ok)
          \/ TaskFooter(t)
          \/ \E ok \in BOOLEAN : TaskUpdate(t, ok)
       /\ UNCHANGED <<amVars, pureVars>>
    \/ /\ PushEnqueue(t) \/ PushNotify(t)
       /\ UNCHANGED <<amVars, subVars, pureVars>>

\* one step of the orchestrator, wait_for included
OrchStep ==
    \/ /\ \/ \E ok \in BOOLEAN : OrchConnect(ok)
          \/ OrchPushFailed
          \/ OrchFlush
       /\ UNCHANGED <<amVars, pureVars>>
    \/ /\ \/ WaitForCheck(Len(stack))
          \/ WaitForNotified
          \/ WaitForWake
          \/ \E mode \in TransportModes : WaitForPush(mode)
       /\ UNCHANGED <<amVars, subVars, pureVars>>

FairSpecSubmit ==
    /\ SpecSubmit
    /\ \A t \in 1..Len(StackAB) : WF_vars(TaskStep(t))
    /\ WF_vars(FooterWait /\ UNCHANGED <<amVars, pureVars>>)
    /\ WF_vars(OrchStep)

(***************************************************************************)
(* Claims about the batched pusher and the AwaitMap.                       *)
(***************************************************************************)
\* the place of producer p's PendingPush in the drained queue
QueuedAt(p) == CHOOSE i \in 1..Len(drained) : drained[i].info = p

\* the refname producer p's push names
RefnameOf(p) ==
    Refspec_refname(Refspec_new(req[p].commit, req[p].branch, req[p].force))

\* C1: with NumProducers producers each calling push once and one concurrent
\* wait_for(NumProducers), under fair scheduling wait_for eventually drains the
\* queue and returns, and every push call eventually returns a result.
C1_EveryPushReturns ==
    <>(wpc = "done" /\ \A p \in Producers : ppc[p] = "done" /\ res[p] # ResNone)

\* C2: the transport is called at most once, and once wait_for has returned it
\* was called exactly once, with exactly the refspecs the producers enqueued:
\* one string per producer, none missing and none twice.
C2_OneCallWithAllRefspecs ==
    /\ tcalls <= 1
    /\ wpc = "done" =>
         /\ tcalls = 1
         /\ Len(targ) = NumProducers
         /\ \E f \in [Producers -> 1..Len(targ)] :
              /\ \A p, q \in Producers : p # q => f[p] # f[q]
              /\ \A p \in Producers :
                    targ[f[p]] = Refspec_to_string(
                        Refspec_new(req[p].commit, req[p].branch, req[p].force))

\* wait_for has returned after one transport call that was given two
\* different refspecs
C2_Witness ==
    /\ wpc = "done"
    /\ tcalls = 1
    /\ Len(targ) = NumProducers
    /\ \E i, j \in 1..Len(targ) : targ[i] # targ[j]

\* C3: a get(k) that found k absent eventually returns once some task has
\* inserted under k, under fair scheduling.
C3_GetEventuallyReturns ==
    \A r \in Readers :
        (getter[r].pc # "idle" /\ latest[getter[r].key] # NoValue)
            ~> (getter[r].pc = "done")

\* C4: get(k) does not return before an insert under k, and returns the value
\* of the last insert made under k before its read.
C4_GetReturnsLatest ==
    \A r \in Readers :
        getter[r].pc = "done" =>
            /\ getter[r].seen # NoValue
            /\ getter[r].ret = getter[r].seen

\* two get calls of the same key have returned different values, the later
\* of them after waiting: the key was written twice
C4_Witness ==
    \E r1, r2 \in Readers :
        /\ getter[r1].pc = "done" /\ getter[r2].pc = "done"
        /\ getter[r1].key = getter[r2].key
        /\ getter[r1].ret # getter[r2].ret
        /\ getter[r2].woken
        /\ \E k \in Keys : k # getter[r1].key /\ inner[k] # NoValue

\* C5: once the batch is over, what a push call returned is what the
\* transport reported for its own refspec: Ok when that was accepted,
\* Err(Rejected) when it was refused, Err(Cancelled) when nothing was reported
\* for it.
C5_OwnOutcome ==
    \A p \in Producers :
        (wpc = "done" /\ ppc[p] = "done") =>
            /\ res[p].tag = "Ok" <=> outcome[QueuedAt(p)] = "Accepted"
            /\ res[p].tag = "Rejected" <=> outcome[QueuedAt(p)] = "Rejected"
            /\ res[p].tag = "Cancelled" <=> outcome[QueuedAt(p)] = "None"

\* C6: wait_for returns Err exactly when the transport call itself failed; a
\* refused reference leaves wait_for Ok, and a push call returns Err(Rejected)
\* only if the transport refused the reference it names.
C6_ErrOnlyWhenTransportFails ==
    wpc = "done" =>
        /\ wres = "Err" <=> tres = "Err"
        /\ tres = "Ok" => wres = "Ok"
        /\ \A p \in Producers :
              res[p].tag = "Rejected" =>
                  \E i \in 1..Len(drained) :
                      /\ Refspec_refname(drained[i].refspec) = RefnameOf(p)
                      /\ outcome[i] = "Rejected"

\* wait_for returned Ok although a reference was refused, and the push call
\* of that reference returned Err(Rejected)
C6_Witness ==
    /\ wpc = "done"
    /\ wres = "Ok"
    /\ \E p \in Producers : ppc[p] = "done" /\ res[p].tag = "Rejected"

\* no two pushes of the batch name the same reference
DistinctRefnames ==
    \A p, q \in Producers : p # q => RefnameOf(p) # RefnameOf(q)

\* the reference p names existed before the batch and its tip was no ancestor
\* of the commit p pushes
TipDiverged(p) ==
    /\ refs_before[RefnameOf(p)] # <<>>
    /\ ~IsAncestor(OidFromString(refs_before[RefnameOf(p)]), req[p].commit)

\* C7: a push to a branch whose remote tip is no ancestor of the pushed commit
\* returns Ok if and only if force was set; afterwards the branch points to the
\* pushed commit if the push returned Ok and is as before if it returned Err.
\* Stated here for the batches most favourable to it: the connection does not
\* fail and no two pushes name the same reference.
C7_ForceDecides ==
    \A p \in Producers :
        (/\ wpc = "done" /\ ppc[p] = "done"
         /\ tmode # "down"
         /\ DistinctRefnames
         /\ TipDiverged(p)) =>
            /\ res[p].tag = "Ok" <=> req[p].force
            /\ res[p].tag = "Ok" =>
                  remote_refs[RefnameOf(p)] = OidToString(req[p].commit)
            /\ res[p].tag # "Ok" =>
                  remote_refs[RefnameOf(p)] = refs_before[RefnameOf(p)]

(***************************************************************************)
(* Claims about submit.                                                    *)
(***************************************************************************)
\* the hex form of the id of the commit task t submits
IdOf(t) == OidToString(stack[t].id)

\* C8: once submit has returned from an invocation in which a per-commit task
\* failed, it returned an error and no commit's note differs from the note it
\* had before the invocation, whatever the order the tasks completed in.
C8_FailureWritesNothing ==
    (opc = "done" /\ \E t \in Tasks : tpc[t] = "failed") =>
        /\ ores = "Err"
        /\ notes = loaded
        /\ written = <<>>

\* C9: after a submit that returned Ok, a commit whose id was the `commit` of
\* its note has the note it had before, revision included.
C9_ResubmitKeepsNote ==
    \A t \in Tasks :
        (opc = "done" /\ ores = "Ok" /\ loaded[t].commit = Some(IdOf(t))) =>
            notes[t] = loaded[t]

\* C10: the metadata a task returns on success has the prior revision (0 when
\* there is none) plus one, the prior history with the commit id appended
\* exactly when the prior `commit` is not that id, the commit id, the branch
\* the task pushed and the number of its review request; a first submit gives
\* revision 1 and history [id], a submit after one amend revision 2 and
\* history [old id, id].
C10_ReturnedMetadata ==
    \A t \in Tasks :
        tpc[t] = "done" =>
            LET m == loaded[t]
                r == tret[t][1]
                pushed == CHOOSE i \in 1..Len(drained) : drained[i].info = t
            IN /\ tret[t] # None
               /\ r.revision = Some((IF m.revision = None THEN 0 ELSE m.revision[1]) + 1)
               /\ m.commit # Some(IdOf(t)) =>
                     r.history = Some((IF m.history = None THEN <<>> ELSE m.history[1])
                                        \o <<IdOf(t)>>)
               /\ m.commit = Some(IdOf(t)) => r.history = m.history
               /\ r.commit = Some(IdOf(t))
               /\ r.branch = Some(drained[pushed].refspec.branch)
               /\ targ[pushed] = (IF m.branch # None THEN <<"+">> ELSE <<>>)
                                    \o IdOf(t) \o <<":", "refs/heads", "/">> \o r.branch[1]
               /\ r.pr = Some(tpr[t].pr.number)
               /\ prs[r.pr[1]].head = r.branch[1]
               /\ m = DefaultMetadata =>
                     r.revision = Some(1) /\ r.history = Some(<<IdOf(t)>>)
               /\ (m.revision = Some(1) /\ m.commit # Some(IdOf(t))
                        /\ m.history = Some(<<m.commit[1]>>)) =>
                     r.revision = Some(2) /\ r.history = Some(<<m.commit[1], IdOf(t)>>)

\* submit returned Ok for a stack whose bottom commit was submitted before and
\* left as it was and whose head was amended since: the head's task returned
\* revision 2 and a history of two ids, the bottom's task a history of one
C10_Witness ==
    /\ opc = "done"
    /\ ores = "Ok"
    /\ \E t, u \in Tasks :
          /\ tpc[t] = "done" /\ tpc[u] = "done"
          /\ loaded[t].commit = Some(OidToString(OldIds[t]))
          /\ tret[t][1].revision = Some(2)
          /\ Len(tret[t][1].history[1]) = 2
          /\ loaded[u].commit = Some(IdOf(u))
          /\ Len(tret[u][1].history[1]) = 1
    /\ notes = [t \in Tasks |-> tret[t][1]]

\* the branch of the refspec task t's push put in the batch
PushedBranch(t) == drained[QueuedAt(t)].refspec.branch

\* C11: after submit returned Ok, the review request of the bottom commit has
\* the stack's upstream as its base, and the review request of every other
\* commit has as its base the branch its parent's task pushed to in this
\* invocation.
C11_BaseIsParentBranch ==
    (opc = "done" /\ ores = "Ok") =>
        \A t \in Tasks :
            /\ prs[tpr[t].pr.number].head = PushedBranch(t)
            /\ prs[tpr[t].pr.number].base =
                  IF t = 1 THEN StackUpstream ELSE PushedBranch(t - 1)

\* submit returned Ok on a stack submitted for the first time: the head's
\* review request was created on the branch the bottom's task had just pushed
C11_Witness ==
    /\ opc = "done"
    /\ ores = "Ok"
    /\ \E t \in Tasks :
          /\ t > 1
          /\ tpr[t].created
          /\ loaded[t - 1].branch = None
          /\ prs[tpr[t].pr.number].base = PushedBranch(t - 1)
          /\ PushedBranch(t - 1) # StackUpstream

\* every commit of the stack has a review request and a branch in its metadata
AllSubmittedBefore ==
    \A t \in Tasks : loaded[t].pr # None /\ loaded[t].branch # None

\* C12: when every commit of the stack already has `pr` and `branch` in its
\* metadata, no review request is created (each task fetches the number its
\* metadata names), every commit is pushed to the branch its metadata names,
\* and the remote's branches and the forge's review requests stay the same
\* sets.
C12_ResubmitCreatesNothing ==
    AllSubmittedBefore =>
        /\ Len(prs) = Len(prs_before)
        /\ DOMAIN remote_refs = DOMAIN refs_before
        /\ \A t \in Tasks :
              /\ tpc[t] \in {"footer", "update", "done"} =>
                    /\ ~tpr[t].created
                    /\ tpr[t].pr.number = loaded[t].pr[1]
              /\ ppc[t] # "idle" => req[t].branch = loaded[t].branch[1]
              /\ (wpc = "done" /\ ppc[t] # "idle" /\ QueuedAt(t) <= Len(targ)) =>
                    SpecDst(targ[QueuedAt(t)]) =
                        RefsHeads \o <<"/">> \o loaded[t].branch[1]

\* submit returned Ok on a stack submitted before whose head was amended
\* since: the head's branch now points to the new id
C12_Witness ==
    /\ AllSubmittedBefore
    /\ opc = "done"
    /\ ores = "Ok"
    /\ \E t \in Tasks :
          /\ loaded[t].commit # Some(IdOf(t))
          /\ remote_refs[RefsHeads \o <<"/">> \o loaded[t].branch[1]] = IdOf(t)
          /\ refs_before[RefsHeads \o <<"/">> \o loaded[t].branch[1]] # IdOf(t)

\* the review requests that existed when the invocation began and whose head
\* is a branch that pointed to the commit of task t: those an earlier
\* invocation created for this commit
OwnPrsBefore(t) ==
    {n \in 1..Len(prs_before) :
        /\ RefsHeads \o <<"/">> \o prs_before[n].head \in DOMAIN refs_before
        /\ refs_before[RefsHeads \o <<"/">> \o prs_before[n].head] = IdOf(t)}

\* C13: in an invocation that follows a failed one, a commit whose branch was
\* pushed and whose review request was created by the failed invocation is
\* pushed to the same branch again and gets no second review request: its task
\* makes no create call, and no two review requests have the same head.
C13_ReconcilesAfterFailure ==
    \A t \in Tasks :
        OwnPrsBefore(t) # {} =>
            /\ ppc[t] # "idle" =>
                  \E n \in OwnPrsBefore(t) : prs_before[n].head = req[t].branch
            /\ "create" \notin fcalls[t]
            /\ \A n, m \in 1..Len(prs) : n # m => prs[n].head # prs[m].head

\* the references the refspecs of the batch name
BatchRefnames == {SpecDst(targ[i]) : i \in 1..Len(targ)}

\* C14: in scenario S4 with indexed branch names the three commits are pushed
\* to three different branches, and once submit returned Ok the remote has a
\* branch for each of the three commits, three review requests exist, and the
\* base of B's review request is the branch pushed for C, a branch that did
\* not exist before.
C14_InsertedCommitGetsOwnBranch ==
    use_indexed_branches =>
        /\ wpc = "done" => Cardinality(BatchRefnames) = Len(stack)
        /\ (opc = "done" /\ ores = "Ok") =>
              /\ Len(prs) = Len(stack)
              /\ \A t \in Tasks :
                    \E n \in DOMAIN remote_refs : remote_refs[n] = IdOf(t)
              /\ prs[loaded[3].pr[1]].base = PushedBranch(2)
              /\ RefsHeads \o <<"/">> \o PushedBranch(2) \notin DOMAIN refs_before

\* scenario S5: the bottom commit has no metadata, and the branch its task
\* will push it to exists on the remote at a commit that is no ancestor of it
StaleBottom ==
    LET n == PathJoin(RefsHeads,
                BranchName(loaded[1], use_indexed_branches, 0, stack[1].id))
    IN /\ loaded[1] = DefaultMetadata
       /\ n \in DOMAIN refs_before
       /\ ~IsAncestor(OidFromString(refs_before[n]), stack[1].id)

\* C15: in scenario S5, once the batch was pushed over a working connection,
\* the bottom commit's push returns Err(Rejected) and ends its task, the other
\* task ends at the base it cannot resolve and never reaches the forge, no
\* note is written, and submit returns an error.
C15_RejectedBottomStopsStack ==
    (StaleBottom /\ wpc = "done" /\ tmode # "down") =>
        /\ ppc[1] = "done" =>
              /\ res[1].tag = "Rejected"
              /\ tpc[1] = "failed"
              /\ tfail[1] = "push"
        /\ \A t \in Tasks \ {1} :
              /\ tpc[t] \notin {"forge", "footer", "update", "done"}
              /\ tpc[t] = "failed" => tfail[t] = "base"
        /\ notes = loaded
        /\ opc = "done" => ores = "Err"

\* C16: a task whose own push returned Ok and whose own forge calls were
\* answered does not fail: a task that failed after its push returned Ok
\* failed at one of its own forge calls.
C16_ForgeFailureStaysInTask ==
    \A t \in Tasks :
        (tpc[t] = "failed" /\ res[t] = ResOk /\ (t > 1 => res[t - 1] = ResOk)) =>
            tfail[t] \in {"forge", "update"}

\* C17: with authoritative_commits set, the task of a commit that has a review
\* request in its metadata ends with the review request carrying the commit's
\* title, the commit's body joined with the footer, and the computed base,
\* and it has made neither a get nor the partial update.
C17_AuthoritativeReplaces ==
    \A t \in Tasks :
        (authoritative_commits /\ loaded[t].pr # None /\ tpc[t] = "done") =>
            /\ prs[loaded[t].pr[1]].title = Some(stack[t].title)
            /\ prs[loaded[t].pr[1]].body =
                  Some(join_footer(<<stack[t].body>>, footer.val[1]))
            /\ prs[loaded[t].pr[1]].base = tbase[t]
            /\ "get" \notin fcalls[t]
            /\ "update" \notin fcalls[t]

\* C18: scenario S3.  After submit returned Ok, a commit that was submitted
\* before and amended since has its recorded branch pointing to its new id,
\* pushed with force, and its review request has the commit's title.
C18_AmendedTitleReachesForge ==
    (opc = "done" /\ ores = "Ok") =>
        \A t \in Tasks :
            (loaded[t].pr # None /\ loaded[t].commit # Some(IdOf(t))) =>
                /\ remote_refs[PathJoin(RefsHeads, loaded[t].branch[1])] = IdOf(t)
                /\ SpecForce(targ[QueuedAt(t)])
                /\ prs[loaded[t].pr[1]].title = Some(stack[t].title)

\* C19: once the orchestrator has returned without the batch having been
\* pushed, every spawned task comes to its end, done or failed.
C19_StoppedOrchestratorEndsTasks ==
    (opc = "done" /\ tcalls = 0) ~> (\A t \in Tasks : tpc[t] \in {"done", "failed"})

\* C20: for a body without the delimiter and any footer, splitting the
\* joined text gives the body and the footer back.
C20_SplitUndoesJoin ==
    splice.pc = "done" => splice.parts = <<splice.body, splice.footer>>

\* C21: the request PR::update sent has a title exactly when the
\* PartialUpdate has one, a base exactly when it has one, and a body exactly
\* when it has a body or a footer; when it has only one of the two, the other
\* half of the body sent is the half split_footer gives of the review
\* request's body.
C21_UpdateSendsWhatIsSet ==
    upd.pc = "sent" =>
        LET parts == split_footer(UnwrapOr(upd.pr.body, <<>>))
            d == upd.data
        IN /\ (upd.sent.title # None) <=> (d.title # None)
           /\ d.title # None => upd.sent.title = d.title
           /\ upd.sent.base = d.base
           /\ (upd.sent.body # None) <=> (d.body # None \/ d.footer # None)
           /\ (d.body # None /\ d.footer = None) =>
                 upd.sent.body = Some(join_footer(d.body[1], parts[2]))
           /\ (d.body = None /\ d.footer # None) =>
                 upd.sent.body = Some(join_footer(parts[1], d.footer[1]))

\* C22: the string of the refspec built from a commit, a branch and a force
\* flag is the commit, ":", "refs/heads/" and the branch without its leading
\* "/", with "+" in front exactly when force is set; the branch the Refspec
\* keeps does not begin with "/", and the destination begins with
\* "refs/heads/".
C22_RefspecCanonical ==
    rspec.pc = "done" =>
        LET b == rspec.branch
            stripped == IF Len(b) > 0 /\ Head(b) = "/" THEN Tail(b) ELSE b
            dst == SpecDst(rspec.str)
        IN /\ rspec.str =
                 (IF rspec.force THEN <<"+">> ELSE <<>>)
                    \o OidToString(rspec.commit) \o <<":", "refs/heads", "/">>
                    \o stripped
           /\ SpecForce(rspec.str) <=> rspec.force
           /\ ~(Len(rspec.built.branch) > 0 /\ Head(rspec.built.branch) = "/")
           /\ Len(dst) >= 2 /\ SubSeq(dst, 1, 2) = <<"refs/heads", "/">>

\* C23: when a commit between the merge base and the head has no parent or
\* more than one, Stack::new returns an error; a Stack it returns is made of
\* commits with one parent each.
C23_NoMergeCommitInStack ==
    walked.pc = "done" =>
        /\ (\E i \in 1..Len(walked.walk) : Len(walked.walk[i].parents) # 1) =>
              ~walked.result.ok
        /\ walked.result.ok =>
              \A i \in 1..Len(walked.walk) : Len(walked.walk[i].parents) = 1

\* task t has its base: it is past the read of its parent's branch name
HasBase(t) ==
    \/ tpc[t] \in {"forge", "footer", "update", "done"}
    \/ tpc[t] = "failed" /\ tfail[t] \in {"forge", "footer", "update"}

\* C24: a task that is not the bottom's has its base only once its parent's
\* push has returned Ok to the parent's task in this invocation, and a branch
\* name is published only by a task whose own push returned Ok.
C24_BaseAfterParentPushed ==
    \A t \in Tasks :
        /\ (t > 1 /\ HasBase(t)) =>
              /\ tpc[t - 1] \notin {"spawned", "gate", "push"}
              /\ res[t - 1] = ResOk
        /\ bn[t].val # loaded[t].branch => res[t] = ResOk

\* the recorded infos of all the commits of the stack, the head's first
AllInfos == [k \in 1..Len(stack) |-> pri[Len(stack) + 1 - k].val[1]]

\* C25: a task is at its final update, or has issued it, only when every
\* commit of the stack has recorded its review request's number, and the
\* footer it uses is the one rendered from the infos of all the commits; the
\* body a finished task left on its review request ends with that footer.
C25_FooterAfterAllInfos ==
    \A t \in Tasks :
        (tpc[t] = "update" \/ "update" \in fcalls[t]) =>
            /\ \A u \in Tasks : pri[u].val # None
            /\ footer.val = Some(RenderFooter(AllInfos))
            /\ tpc[t] = "done" =>
                  prs[tpr[t].pr.number].body =
                      Some(SpliceBody(tpr[t].pr.body, RenderFooter(AllInfos)))

\* a task has finished its final update while another is still before its
\* own, in a stack where one review request existed and one was created
C25_Witness ==
    \E t, u \in Tasks :
        /\ tpc[t] = "done"
        /\ tpc[u] = "footer"
        /\ tpr[t].created # tpr[u].created
        /\ footer.val = Some(RenderFooter(AllInfos))

\* task t is past the start gate
PastGate(t) == tpc[t] \notin {"spawned", "gate"}

\* C26: a task is past the start gate only after the orchestrator connected
\* to the remote and signalled the gate (and went on to call wait_for); a
\* task that is not past it has enqueued no push and made no forge call.
C26_NothingBeforeGate ==
    \A t \in Tasks :
        /\ PastGate(t) => (opc # "connect" /\ wpc # "idle")
        /\ ~PastGate(t) =>
              /\ ppc[t] = "idle"
              /\ fcalls[t] = {}
              /\ \A i \in 1..Len(pending) : pending[i].info # t

\* after the gate was signalled one task has enqueued its push while another
\* has not come to the gate yet
C26_Witness ==
    \E t, u \in Tasks :
        /\ opc = "wait_for"
        /\ \E i \in 1..Len(pending) : pending[i].info = t
        /\ tpc[u] = "spawned"

\* C27: a note differs from what was loaded, or a write is counted, only
\* after every task of the invocation has completed and the orchestrator has
\* gone through their results; when submit returned Ok, every commit of the
\* stack had its note written once, and no other note was written.
C27_NotesWrittenAfterFanIn ==
    /\ (notes # loaded \/ written # <<>>) =>
          /\ opc = "done"
          /\ \A t \in Tasks : tpc[t] \in {"done", "failed"}
    /\ (opc = "done" /\ ores = "Ok") =>
          /\ Len(written) = Len(stack)
          /\ \A t \in Tasks :
                Cardinality({i \in 1..Len(written) : written[i] = stack[t].id}) = 1

\* submit returned Ok and wrote the head's note before the bottom's, the
\* head's task having completed first
C27_Witness ==
    /\ opc = "done"
    /\ ores = "Ok"
    /\ Len(written) = Len(stack)
    /\ written[1] = stack[Len(stack)].id
    /\ notes # loaded

\* C28: with a branch recorded in the metadata the task pushes to that
\* branch with force; without one it pushes without force to
\* fel/<stack_name>/<index>, or to fel/<stack_name>/<first 4 hex of the id>
\* when branches are not indexed, with <branch_prefix>/ before it when a
\* prefix is configured.
C28_BranchFromMetadata ==
    chosen.pc = "push" =>
        LET last == IF chosen.indexed THEN <<HexChars[chosen.index + 1]>>
                    ELSE SubSeq(OidToString(chosen.id), 1, 4)
            name == <<"fel", "/", StackName[1], "/">> \o last
        IN /\ chosen.push.commit = chosen.id
           /\ chosen.metadata.branch # None =>
                 /\ chosen.push.branch = chosen.metadata.branch[1]
                 /\ chosen.push.force
           /\ chosen.metadata.branch = None =>
                 /\ ~chosen.push.force
                 /\ chosen.prefix = None => chosen.push.branch = name
                 /\ chosen.prefix # None =>
                       chosen.push.branch = chosen.prefix[1] \o <<"/">> \o name

\* a prefix is configured and the commit has a branch recorded: the push goes
\* to the recorded branch, which does not begin with the prefix
C28_Witness ==
    /\ chosen.pc = "push"
    /\ chosen.prefix # None
    /\ chosen.metadata.branch = Some(<<"old">>)
    /\ chosen.push.branch = <<"old">>
    /\ chosen.push.force

\* the transport call was made and failed as a whole
TransportFailed == wpc = "done" /\ tres = "Err"

\* C29: when the transport call failed as a whole, wait_for returns Err, no
\* reply channel of the batch is left open, and every push call of the batch
\* that was given no outcome for its reference returns, and returns
\* Err(Cancelled).
C29_FailedTransportCancels ==
    /\ [](TransportFailed =>
            /\ wres = "Err"
            /\ \A p \in Producers :
                  /\ chan[p].state # "open"
                  /\ (ppc[p] = "done" /\ chan[p].state = "dropped") =>
                        res[p] = ResCancelled)
    /\ TransportFailed ~>
          (\A p \in Producers :
              /\ ppc[p] = "done"
              /\ chan[p].state = "dropped" => res[p] = ResCancelled)

\* the transport refused the batch before sending it, one of its refspecs
\* not being a fast-forward, and every push call has returned Err(Cancelled)
C29_Witness ==
    /\ TransportFailed
    /\ tmode = "local"
    /\ \A p \in Producers : ppc[p] = "done" /\ res[p] = ResCancelled

\* the pushes enqueued so far, drained or not
Enqueued == drained \o pending

\* the invocation has reached the push phase: wait_for was called
PushPhase == opc = "wait_for"

\* the queue never holds more than one push per commit and the transport is
\* called at most once, with one refspec per commit
QueueWithinStack ==
    /\ Len(pending) <= Len(stack)
    /\ Len(Enqueued) <= Len(stack)
    /\ \A t \in Tasks :
          Cardinality({i \in 1..Len(Enqueued) : Enqueued[i].info = t}) <= 1
    /\ tcalls <= 1
    /\ wpc \in {"push", "done"} => Len(drained) = Len(stack)

\* C30: in an invocation that reaches the push phase the queue never holds
\* more pushes than the stack has commits, no commit is enqueued twice and
\* wait_for takes the queue at most once; and the queue eventually holds one
\* push per commit and is taken.
C30_QueueReachesStackLength ==
    /\ []QueueWithinStack
    /\ PushPhase ~> (Len(drained) = Len(stack))

(***************************************************************************)
(* C39: no review request is created, fetched or updated for a commit      *)
(* unless that commit's own push has returned Ok before, in the same       *)
(* invocation; a task whose push was rejected or cancelled calls the forge *)
(* never, also when Remote::push as a whole failed.                        *)
(***************************************************************************)
C39_ForgeOnlyAfterOwnPush ==
    \A t \in Tasks :
        /\ fcalls[t] # {} => ppc[t] = "done" /\ res[t] = ResOk
        /\ (ppc[t] = "done" /\ res[t] # ResOk) =>
               fcalls[t] = {} /\ tpc[t] = "failed" /\ tfail[t] = "push"

\* one commit's task called the forge after its push returned Ok, while the
\* other's push was refused and its task called the forge never
C39_Witness ==
    \E t, u \in Tasks :
        /\ fcalls[t] # {} /\ res[t] = ResOk
        /\ ppc[u] = "done" /\ res[u] # ResOk /\ res[u] # ResCancelled
        /\ fcalls[u] = {}

(***************************************************************************)
(* C38: within one invocation the tasks of distinct commits never push to  *)
(* the same remote branch, whatever mix of recorded and synthesized names  *)
(* the stack has: no two pushes of the batch share a refname, and no reply *)
(* channel is replaced in the map wait_for builds.                         *)
(***************************************************************************)
C38_DistinctBranchPerCommit ==
    /\ \A t, u \in Tasks :
          (t # u /\ ppc[t] # "idle" /\ ppc[u] # "idle") =>
              /\ req[t].branch # req[u].branch
              /\ RefnameOf(t) # RefnameOf(u)
    /\ Replaced(drained) = {}

(***************************************************************************)
(* C34: the list of review-request summaries render_footer hands to the    *)
(* footer template is in stack order, the bottom commit's first and the    *)
(* head's last.                                                            *)
(***************************************************************************)
C34_FooterInStackOrder ==
    fpc.state = "rendered" =>
        /\ Len(fprs) = Len(stack)
        /\ \A k \in 1..Len(stack) : fprs[k] = pri[k].val[1]
        /\ footer.val = Some(RenderFooter(fprs))

(***************************************************************************)
(* C35: once the orchestrator has signalled the start gate, every          *)
(* per-commit task eventually passes it, whichever of the task's first     *)
(* poll and the notify_waiters call comes first.                           *)
(***************************************************************************)
C35_EveryTaskPassesGate ==
    \A t \in 1..Len(StackAB) : PushPhase ~> PastGate(t)

\* the connection, the transport, a reference's update or a forge call failed
SomethingFailed ==
    \/ ores = "Err"
    \/ wres = "Err"
    \/ \E t \in Tasks : tpc[t] = "failed" \/ res[t] \notin {ResNone, ResOk}
    \/ fpc.state = "failed"

\* submit returned Ok: every task is done, the footer was rendered and every
\* commit's note was written
SubmitOk ==
    /\ opc = "done" /\ ores = "Ok"
    /\ \A t \in Tasks : tpc[t] = "done" /\ notes[t] = tret[t][1]
    /\ fpc.state = "rendered"
    /\ Len(written) = Len(stack)

(***************************************************************************)
(* C36: when the connection, the transport push and every forge call       *)
(* succeed, submit terminates under fair scheduling: every task runs to    *)
(* Done, the footer is rendered, every commit's metadata is written and    *)
(* submit returns Ok; the waits on the batch threshold, on the parent's    *)
(* branch and on the footer never deadlock.                                *)
(***************************************************************************)
C36_SubmitTerminates == <>(SomethingFailed \/ SubmitOk)

\* a task's submit_commit returned an error
SomeTaskFailed == \E t \in Tasks : tpc[t] = "failed"

\* nothing is suspended any more: every task and the footer task have ended
\* and submit has returned
AllEnded ==
    /\ \A t \in Tasks : tpc[t] \in {"done", "failed"}
    /\ fpc.state \in {"rendered", "failed"}
    /\ opc = "done"

(***************************************************************************)
(* C37: once the tasks are past the start gate, the failure of a task at   *)
(* any step (its push refused or cancelled, its base unresolved, its forge *)
(* call or its final update failed) leaves no other task and not the       *)
(* footer task suspended for ever: every task eventually is Done or        *)
(* Failed, the footer task ends and submit returns.                        *)
(***************************************************************************)
C37_FailureSuspendsNobody == SomeTaskFailed ~> AllEnded

\* a forge call of one task failed, the footer task failed for it, the other
\* task gave up waiting for the footer, and submit has returned the error
C37_Witness ==
    /\ AllEnded
    /\ ores = "Err"
    /\ \E t, u \in Tasks : tfail[t] = "forge" /\ tfail[u] = "footer"

(***************************************************************************)
(* C40: the final footer update leaves the text before the first           *)
(* delimiter of a review request's body as it was: once a commit was       *)
(* submitted, a further submit gives its review request a body whose text  *)
(* before the delimiter is the same as after the submit before, and no     *)
(* longer.                                                                 *)
(***************************************************************************)
C40_TextBeforeDelimKept ==
    \A t \in Tasks :
        (tpc[t] = "done" /\ "update" \in fcalls[t] /\ ~tpr[t].created) =>
            LET n == tpr[t].pr.number
            IN /\ BeforeDelim(prs[n].body[1]) = BeforeDelim(prs_before[n].body[1])
               /\ Len(BeforeDelim(prs[n].body[1])) <=
                     Len(BeforeDelim(prs_before[n].body[1]))

(***************************************************************************)
(* Claims about a commit that is submitted again and again.                *)
(***************************************************************************)
\* the history a note records
HistoryOf(metadata) == UnwrapOr(metadata.history, <<>>)

\* the places of an id among the ids submitted
SubmittedAt(h) == {i \in 1..Len(life.submitted) : OidToString(life.submitted[i]) = h}

(***************************************************************************)
(* C32: after any sequence of successful submits and amends, an amend      *)
(* that gives the commit an id it had before included, the history of a    *)
(* commit's metadata holds pairwise distinct hashes, in the order in which *)
(* they were submitted.                                                    *)
(***************************************************************************)
C32_HistoryDistinctInOrder ==
    \A id \in LifeIds :
        LET history == HistoryOf(life.notes[id])
        IN /\ \A i, j \in 1..Len(history) : i # j => history[i] # history[j]
           /\ \A i \in 1..Len(history) : SubmittedAt(history[i]) # {}
           /\ \A i, j \in 1..Len(history) :
                 i < j => \E a \in SubmittedAt(history[i]), b \in SubmittedAt(history[j]) :
                              a < b

(***************************************************************************)
(* C33: starting from no notes, after any sequence of submits and amends   *)
(* every note the engine has written has a `commit` that is the last       *)
(* element of its `history`; so the note loaded for the commit now has a   *)
(* `commit` that is the commit's id or the last of the history.            *)
(***************************************************************************)
C33_CommitIsLastOfHistory ==
    /\ \A id \in LifeIds :
          life.notes[id] # DefaultMetadata =>
              LET m == life.notes[id]
              IN /\ m.commit # None
                 /\ m.history # None
                 /\ m.history[1] # <<>>
                 /\ m.commit[1] = m.history[1][Len(m.history[1])]
    /\ life.pc = "run" =>
          LET m == Metadata_new(life.notes, life.id)
          IN m.commit # None =>
                \/ m.commit[1] = OidToString(life.id)
                \/ m.commit[1] = HistoryOf(m)[Len(HistoryOf(m))]

\* the commit was submitted, amended and submitted, amended back to the id
\* it had first and submitted again; and the note loaded for another id it
\* had is that of a submit before the amend
C33_Witness ==
    /\ Len(life.submitted) = MaxSubmits
    /\ life.submitted[1] = life.id
    /\ life.submitted[2] # life.id
    /\ Len(HistoryOf(life.notes[life.id])) = 3
    /\ \E id \in LifeIds \ {life.id} :
          /\ life.notes[id] # DefaultMetadata
          /\ life.notes[id].commit # Some(OidToString(id))

(***************************************************************************)
(* Claims about a pusher that is used for several batches.                 *)
(***************************************************************************)
\* the entries wait_for has taken, in this batch and in those before
TakenEntries ==
    {drained[i] : i \in 1..Len(drained)} \cup
    UNION {{batches[k].drained[i] : i \in 1..Len(batches[k].drained)} :
              k \in 1..Len(batches)}

\* the result a push call is sent for what the transport reported
ResultOf(o) ==
    IF o = "Accepted" THEN ResOk ELSE ResRejected("non-fast-forward")

(***************************************************************************)
(* C31: a BatchedPusher is idle again after each batch and can be used for *)
(* the next: once wait_for has taken the queue none of the entries it took *)
(* is in the pending queue, and the pushes of a later batch get only       *)
(* outcomes of that batch's own transport call, whether the batch before   *)
(* succeeded or failed.                                                    *)
(***************************************************************************)
C31_PusherReusable ==
    /\ \A i \in 1..Len(pending) : pending[i] \notin TakenEntries
    /\ wpc \in {"push", "done"} => pending = <<>>
    /\ wpc = "done" =>
          /\ tcalls = Len(batches) + 1
          /\ Len(targ) = NumProducers
          /\ \A i \in 1..Len(targ) :
                SpecSrc(targ[i]) = OidToString(BatchCommit(Len(batches) + 1))
    /\ \A p \in Producers :
          ppc[p] = "done" =>
              /\ wpc = "done"
              /\ \/ res[p] = ResCancelled
                 \/ \E i \in 1..Len(targ) :
                       /\ SpecDst(targ[i]) = RefnameOf(p)
                       /\ outcome[i] # "None"
                       /\ res[p] = ResultOf(outcome[i])
              /\ tres = "Err" => res[p] = ResCancelled

\* the first batch failed as a whole and every push of it was cancelled; the
\* second batch, through the same pusher, was pushed and a push of it
\* returned Ok
C31_Witness ==
    /\ Len(batches) = 1
    /\ batches[1].wres = "Err"
    /\ \A p \in Producers : batches[1].res[p] = ResCancelled
    /\ wpc = "done" /\ wres = "Ok"
    /\ \E p \in Producers : ppc[p] = "done" /\ res[p] = ResOk
====
